---- MODULE Spec2Model ----
(***************************************************************************)
(* Messenger webhook relay (Debar665/messenger-gemini-bot).                *)
(*                                                                         *)
(* The repository holds five revisions of the same express application:   *)
(*   "r1"  src/index.js lines 1-375     (rate limit, reply chunking)      *)
(*   "r2"  src/index.js lines 376-903   (ConversationManager, dedupe)     *)
(*   "r3"  src/index.js lines 904-1427  (conversationMemory, live data)   *)
(*   "p0"  src/unnamed/part_000         (ConversationManager, football)   *)
(*   "p1"  src/unnamed/part_001         (detached handleUserMessage)      *)
(* The deployed revision is the variable rev, chosen in Init and never    *)
(* changed.                                                                *)
(*                                                                         *)
(* Specifications:                                                         *)
(*   SpecVerify  GET /webhook                                              *)
(*   SpecCap     the per-user history cap under repeated appends           *)
(*   Spec        POST /webhook: deliveries, their asynchronous steps and   *)
(*               the outbound calls they make                              *)
(***************************************************************************)
EXTENDS Integers, Sequences, FiniteSets, TLC

VARIABLES
    rev,                  \* the deployed revision
    now,                  \* Date.now()
    env,                  \* process.env.VERIFY_TOKEN
    vquery,               \* req.query of the last GET /webhook
    vres,                 \* the response to the last GET /webhook
    conversations,        \* r2, p0: Map userID -> {messages, lastActivity}
    conversationMemory,   \* r3: Map userId -> array of turns
    conversationHistory,  \* r1: Map userID -> array of {role, content}
    userLastMessage,      \* r1: Map userID -> time of the last accepted message
    processedMessages,    \* r2: Set of message keys
    typingIntervals,      \* p0: the recipients with a repeating typing interval
    FOOTBALL_API_KEY,     \* p0: process.env.FOOTBALL_API_KEY is set
    reqs,                 \* the POST /webhook deliveries: body and response
    tasks,                \* the asynchronous functions started for them
    calls,                \* per task, the outbound calls it made, in order
    seen,                 \* history: r1's rate-limit decisions
    heap,                 \* r1: the history arrays, by reference (SpecHistory)
    histRef,              \* r1: Map userID -> the array conversationHistory holds
    appended,             \* history: per user, the turns appended so far
    op                    \* history: the last call observed and what it returned

storeVars == <<conversations, conversationMemory, conversationHistory,
               userLastMessage, processedMessages, typingIntervals>>
hookVars == <<reqs, tasks, calls, seen>>
verifyVars == <<vquery, vres>>
heapVars == <<heap, histRef>>
vars == <<heapVars, rev, now, env, FOOTBALL_API_KEY, verifyVars, storeVars, hookVars, appended, op>>

Revisions == {"r1", "r2", "r3", "p0", "p1"}

(***************************************************************************)
(* JavaScript values                                                       *)
(***************************************************************************)
Absent == "<undefined>"            \* undefined: a query key or field not given
NoResponse == [status |-> 0, body |-> ""]   \* res before anything is sent
Responded(r) == r.status # 0

Truthy(v) == v # Absent /\ v # ""  \* of a string or undefined
NoOp == [name |-> "none"]          \* no call observed yet

\* a Map is a function on the set of its keys
EmptyMap == << >>
Has(m, k) == k \in DOMAIN m
MapSet(m, k, v) == [x \in DOMAIN m \cup {k} |-> IF x = k THEN v ELSE m[x]]
MapDelete(m, k) == [x \in DOMAIN m \ {k} |-> m[x]]

\* Array.prototype.slice(-n)
SliceLast(s, n) == IF Len(s) <= n THEN s ELSE SubSeq(s, Len(s) - n + 1, Len(s))
\* Array.prototype.slice(0, n)
SliceFirst(s, n) == IF Len(s) <= n THEN s ELSE SubSeq(s, 1, n)

(***************************************************************************)
(* Bounds of the model                                                     *)
(***************************************************************************)
StartTime == 5000                  \* Date.now() when the process starts
MaxAppends == 12                   \* SpecCap: appends in one behaviour

Users == {"u1", "u2"}

(***************************************************************************)
(* GET /webhook                                                            *)
(***************************************************************************)
DefaultVerifyToken == "my_secret_verify_token_12345"

\* const VERIFY_TOKEN = process.env.VERIFY_TOKEN || '<default>'
VERIFY_TOKEN == IF Truthy(env) THEN env ELSE DefaultVerifyToken

\* express: res.status(code).send(body); send(undefined) sends no body
Send(code, body) == [status |-> code, body |-> IF body = Absent THEN "" ELSE body]

\* express: res.sendStatus(code) sends the status text as the body
StatusText(code) ==
    CASE code = 200 -> "OK"
      [] code = 403 -> "Forbidden"
      [] code = 404 -> "Not Found"
      [] OTHER -> "Internal Server Error"
SendStatus(code) == [status |-> code, body |-> StatusText(code)]

\* mutants of VerifyWebhook
VerifyWebhook_IgnoresMode(q) ==
    IF q.token = VERIFY_TOKEN THEN Send(200, q.challenge) ELSE SendStatus(403)
VerifyWebhook_EchoesOnReject(q) ==
    IF Truthy(q.mode) /\ q.token = VERIFY_TOKEN
    THEN Send(200, q.challenge)
    ELSE Send(403, q.challenge)

\* app.get('/webhook', ...): the same text in all five revisions
VerifyWebhook(q) ==
    IF Truthy(q.mode) /\ q.token = VERIFY_TOKEN
    THEN Send(200, q.challenge)
    ELSE SendStatus(403)

Modes == {Absent, "", "subscribe", "unsubscribe"}
Tokens == {Absent, "", DefaultVerifyToken, "env_secret", "wrong"}
Challenges == {Absent, "", "1158201444", "Forbidden"}
Queries == [mode : Modes, token : Tokens, challenge : Challenges]

GetWebhook ==
    \E q \in Queries :
        /\ vquery' = q
        /\ vres' = VerifyWebhook(q)
        /\ UNCHANGED <<heapVars, rev, now, env, FOOTBALL_API_KEY, storeVars, hookVars, appended, op>>

(***************************************************************************)
(* Session store                                                           *)
(***************************************************************************)
MAX_HISTORY_MESSAGES == 10
HistoryCapR3 == 10

Roles == {"user", "assistant"}
Turn(role, content, t) == [role |-> role, content |-> content, timestamp |-> t]

\* ConversationManager.getConversation: creates the session when missing
GetConversation(convs, userID, t) ==
    IF Has(convs, userID)
    THEN convs
    ELSE MapSet(convs, userID, [messages |-> << >>, lastActivity |-> t])

\* mutant of AddMessage: keeps the oldest turns
AddMessage_KeepsOldest(convs, userID, role, content, t) ==
    LET c0 == GetConversation(convs, userID, t)
        pushed == Append(c0[userID].messages, Turn(role, content, t))
    IN  MapSet(c0, userID,
               [messages |-> SliceFirst(pushed, MAX_HISTORY_MESSAGES),
                lastActivity |-> t])

\* ConversationManager.addMessage (r2 and p0: the same text)
AddMessage(convs, userID, role, content, t) ==
    LET c0 == GetConversation(convs, userID, t)
        pushed == Append(c0[userID].messages, Turn(role, content, t))
    IN  MapSet(c0, userID,
               [messages |-> IF Len(pushed) > MAX_HISTORY_MESSAGES
                             THEN SliceLast(pushed, MAX_HISTORY_MESSAGES)
                             ELSE pushed,
                lastActivity |-> t])

\* ConversationManager.getHistory: the stored turns (the session is created
\* when missing; see GetConversation)
GetHistory(convs, userID, t) == GetConversation(convs, userID, t)[userID].messages

\* r3: getConversationHistory creates the array when missing
GetConversationHistory(mem, userId) ==
    IF Has(mem, userId) THEN mem ELSE MapSet(mem, userId, << >>)

\* mutant of AddToHistory: only the user's turns are stored
AddToHistory_UserOnly(mem, userId, role, content, t) ==
    LET m0 == GetConversationHistory(mem, userId)
    IN  IF role = "assistant" THEN m0
        ELSE MapSet(m0, userId, Append(m0[userId], Turn(role, content, t)))

\* r3: addToHistory: push, then one shift() when longer than 10
AddToHistory(mem, userId, role, content, t) ==
    LET m0 == GetConversationHistory(mem, userId)
        pushed == Append(m0[userId], Turn(role, content, t))
    IN  MapSet(m0, userId,
               IF Len(pushed) > HistoryCapR3 THEN Tail(pushed) ELSE pushed)

\* what the store returns when asked for a user's history
StoredHistory(u) ==
    CASE rev \in {"r2", "p0"} -> GetHistory(conversations, u, now)
      [] rev = "r3" -> GetConversationHistory(conversationMemory, u)[u]
      [] OTHER -> << >>

Contents == {"hello"}
TotalAppended == Len(appended["u1"]) + Len(appended["u2"])

\* one call of addMessage / addToHistory
AppendCall ==
    \E u \in Users, role \in Roles, content \in Contents :
        /\ TotalAppended < MaxAppends
        /\ appended' = [appended EXCEPT ![u] = Append(@, Turn(role, content, now))]
        /\ \/ /\ rev \in {"r2", "p0"}
              /\ conversations' = AddMessage(conversations, u, role, content, now)
              /\ UNCHANGED conversationMemory
           \/ /\ rev = "r3"
              /\ conversationMemory' = AddToHistory(conversationMemory, u, role, content, now)
              /\ UNCHANGED conversations
        /\ UNCHANGED <<heapVars, rev, now, env, FOOTBALL_API_KEY, verifyVars, hookVars, op,
                       conversationHistory, userLastMessage, processedMessages,
                       typingIntervals>>

(***************************************************************************)
(* POST /webhook: the deliveries                                           *)
(***************************************************************************)
MaxDeliveries == 1                 \* deliveries in one behaviour
MaxEvents == 2                     \* events in one delivery
MaxChunks == 2                     \* chunks of one reply (r1, p1)
MaxTicks == 2                      \* clock steps in one behaviour
TickMs == 1000                     \* milliseconds in one clock step

RATE_LIMIT_MS == 2000
CleanupAge == 3600000              \* oneHourAgo = Date.now() - (60 * 60 * 1000)
MESSAGE_EXPIRE_TIME == 300000      \* r2: 5 * 60 * 1000
ChunkDelayR1 == 1000
ChunkDelayP1 == 1500

PAGE_ID == "page"

Hello == "hello"
ClearText == "/Clear"
DataText == "weather in Erbil for the liverpool match"
Texts == {Hello, ClearText, DataText}

\* String.prototype.toLowerCase on the texts of the model
ToLowerCase(text) == IF text = ClearText THEN "/clear" ELSE text
\* mutant of IsClearCommand: the text is compared as it was typed
IsClearCommand_Exact(text) == text \in {"/clear", "/reset"}

\* userMessage.toLowerCase() === '/clear' || ... === '/reset'
IsClearCommand(text) == ToLowerCase(text) \in {"/clear", "/reset"}
\* r2: lowerMessage.includes('weather') ..., with a city matched
IsWeatherRequest(text) == text = DataText
\* r3: checkAndGetRealtimeData reaches getWeatherData (a city is matched)
IsRealtimeQuery(text) == text = DataText
\* p0: isFootballQuery
IsFootballQuery(text) == text = DataText

\* one element of entry.messaging
Event(sender, text, echo, postback) ==
    [sender |-> sender, text |-> text, is_echo |-> echo, postback |-> postback,
     mid |-> "m1"]

Events ==
    { Event("u1", Hello, FALSE, Absent),
      Event("u2", Hello, FALSE, Absent),
      Event("u1", ClearText, FALSE, Absent),
      Event("u1", DataText, FALSE, Absent),
      Event(PAGE_ID, Hello, TRUE, Absent),            \* an echo
      Event(PAGE_ID, Hello, FALSE, Absent),           \* sent by the page itself
      Event("u1", Absent, FALSE, "GET_STARTED"),      \* a button click
      Event("u1", Hello, TRUE, "GET_STARTED"),        \* an echo that carries a postback
      Event(PAGE_ID, Absent, FALSE, "HELP") }         \* a postback of the page itself

EventLists == UNION {[1..n -> Events] : n \in 0..MaxEvents}

GoodEntry(evs) == [id |-> PAGE_ID, iterable |-> TRUE, messaging |-> evs]
\* an entry without a messaging list
BadEntry == [id |-> PAGE_ID, iterable |-> FALSE, messaging |-> << >>]

Body(object, hasEntry, entry) ==
    [object |-> object, hasEntry |-> hasEntry, entry |-> entry]

\* well-formed deliveries; deliveries whose entry list is missing or whose
\* second entry has no messaging list; a delivery that is not a page's
Bodies ==
    {Body("page", TRUE, <<GoodEntry(evs)>>) : evs \in EventLists}
    \cup {Body("page", TRUE, <<GoodEntry(evs), BadEntry>>) :
            evs \in {l \in EventLists : Len(l) <= 1}}
    \cup {Body("page", FALSE, << >>)}
    \cup {Body("user", TRUE, <<GoodEntry(<<Event("u1", Hello, FALSE, Absent)>>)>>)}

WellFormed(body) ==
    body.hasEntry /\ \A k \in 1..Len(body.entry) : body.entry[k].iterable

\* the user-message test of every revision
IsUserMessage(e, pageID) ==
    Truthy(e.text) /\ ~e.is_echo /\ e.sender # pageID
\* else if (event.postback)
IsPostback(e) == e.postback # Absent

\* mutant of RateLimited: nothing is dropped
RateLimited_Never(t, last) == t - last < 0

\* r1: now - lastMessageTime < RATE_LIMIT_MS
RateLimited(t, last) == t - last < RATE_LIMIT_MS

(***************************************************************************)
(* The working state of one synchronous run: the variables a handler can  *)
(* change.  An action runs a handler from one await to the next.          *)
(***************************************************************************)
Cur ==
    [reqs |-> reqs, tasks |-> tasks, calls |-> calls, seen |-> seen,
     conversations |-> conversations,
     conversationMemory |-> conversationMemory,
     conversationHistory |-> conversationHistory,
     userLastMessage |-> userLastMessage,
     processedMessages |-> processedMessages,
     typingIntervals |-> typingIntervals]

Commit(S) ==
    /\ reqs' = S.reqs
    /\ tasks' = S.tasks
    /\ calls' = S.calls
    /\ seen' = S.seen
    /\ conversations' = S.conversations
    /\ conversationMemory' = S.conversationMemory
    /\ conversationHistory' = S.conversationHistory
    /\ userLastMessage' = S.userLastMessage
    /\ processedMessages' = S.processedMessages
    /\ typingIntervals' = S.typingIntervals

NewTask(r, kind, ei, vi) ==
    [req |-> r, kind |-> kind, ei |-> ei, vi |-> vi, pc |-> "run",
     call |-> 0, i |-> 0, n |-> 0, err |-> FALSE, wake |-> 0]

BodyOf(S, t) == S.reqs[S.tasks[t].req].body
EventAt(body, ei, vi) == body.entry[ei].messaging[vi]
EventOf(S, t) == EventAt(BodyOf(S, t), S.tasks[t].ei, S.tasks[t].vi)
SenderOf(S, t) == EventOf(S, t).sender

SetPc(S, t, pc) == [S EXCEPT !.tasks[t].pc = pc]

\* an outbound call that is not awaited
Issue(S, t, kind, what) ==
    [S EXCEPT !.calls[t] = Append(@,
        [req |-> S.tasks[t].req, ei |-> S.tasks[t].ei, vi |-> S.tasks[t].vi,
         kind |-> kind, to |-> SenderOf(S, t), what |-> what,
         i |-> S.tasks[t].i, result |-> "pending", awaited |-> FALSE,
         turns |-> << >>])]

\* an outbound call the task awaits: the task is suspended at pc
Await(S, t, kind, what, pc) ==
    LET S1 == Issue(S, t, kind, what)
        c == Len(S1.calls[t])
    IN  [S1 EXCEPT !.calls[t][c].awaited = TRUE,
                   !.tasks[t].call = c,
                   !.tasks[t].pc = pc]

\* the completion request, awaited; turns are the role-tagged turns it
\* carries after the system instruction
Complete(S, t, turns) ==
    LET S1 == Await(S, t, "completion", "-", "completion")
    IN  [S1 EXCEPT !.calls[t][S1.tasks[t].call].turns = turns]

\* await sleep(ms)
Sleep(S, t, ms) ==
    [S EXCEPT !.tasks[t].pc = "sleep", !.tasks[t].wake = now + ms, !.tasks[t].call = 0]

\* the next element of entry.messaging
Advance(S, t) ==
    [S EXCEPT !.tasks[t].vi = @ + 1, !.tasks[t].i = 0, !.tasks[t].n = 0,
              !.tasks[t].err = FALSE, !.tasks[t].call = 0]

\* the acknowledgment of a delivery
EventReceived == Send(200, "EVENT_RECEIVED")

\* a write to res: the first one is the response; express refuses any later
\* one (ERR_HTTP_HEADERS_SENT is thrown)
Respond(S, r, response) ==
    IF Responded(S.reqs[r].res)
    THEN [S EXCEPT !.reqs[r].late = TRUE]
    ELSE [S EXCEPT !.reqs[r].res = response]

(***************************************************************************)
(* Store operations of the handlers                                        *)
(***************************************************************************)
MAX_HISTORY == 5

\* mutant of ClearConversation: the session is kept
ClearConversation_Keeps(convs, userID) == convs

\* ConversationManager.clearConversation
ClearConversation(convs, userID) == MapDelete(convs, userID)

\* r1 getAIResponse, before the request: get or create the array, push the
\* user turn, keep the last MAX_HISTORY * 2
R1_PushUser(hist, userID, message) ==
    LET h0 == IF Has(hist, userID) THEN hist[userID] ELSE << >>
        pushed == Append(h0, [role |-> "user", content |-> message])
    IN  MapSet(hist, userID,
               IF Len(pushed) > MAX_HISTORY * 2
               THEN SliceLast(pushed, MAX_HISTORY * 2)
               ELSE pushed)

\* mutant of R1_PushAssistant: the assistant turn is not stored
R1_PushAssistant_Skips(hist, userID, reply) == hist

\* r1 getAIResponse, after a good answer: push the assistant turn (no trim)
\* and conversationHistory.set(userID, history)
R1_PushAssistant(hist, userID, reply) ==
    LET h0 == IF Has(hist, userID) THEN hist[userID] ELSE << >>
    IN  MapSet(hist, userID, Append(h0, [role |-> "assistant", content |-> reply]))

Reply == "reply"                   \* the text of a completion

\* mutant of StopTyping: the interval is left running
StopTyping_Leaves(S, t) == Issue(S, t, "typing_off", "-")

\* p0 stopTyping: clear the interval, send typing_off without waiting
StopTyping(S, t) ==
    Issue([S EXCEPT !.typingIntervals = @ \ {SenderOf(S, t)}], t, "typing_off", "-")

\* p0 startTyping: stopTyping, typing_on without waiting, a new interval
StartTyping(S, t) ==
    LET S1 == Issue(StopTyping(S, t), t, "typing_on", "-")
    IN  [S1 EXCEPT !.typingIntervals = @ \cup {SenderOf(S, t)}]

(***************************************************************************)
(* The event loop of a delivery, run until the next await                  *)
(***************************************************************************)
RECURSIVE Loop(_, _)

\* mutant of Throw: the catch around the loops answers nothing
Throw_Swallows(S, t) == SetPc(S, t, "done")

\* an exception that reaches the catch around the loops (r1, r3, p0, p1) or
\* rejects processWebhookEvents (r2)
Throw(S, t) ==
    LET r == S.tasks[t].req IN
    CASE rev = "r1" -> SetPc(Respond(S, r, Send(500, "ERROR")), t, "rejected")
      [] rev = "r2" -> SetPc(S, t, "done")
      [] OTHER -> SetPc(Respond(S, r, Send(500, "ERROR")), t, "done")

\* mutant of LoopDone: no acknowledgment after the loops
LoopDone_NoAck(S, t) == SetPc(S, t, "done")

\* the loops have ended
LoopDone(S, t) ==
    IF rev \in {"r1", "r2"}
    THEN SetPc(S, t, "done")
    ELSE SetPc(Respond(S, S.tasks[t].req, EventReceived), t, "done")

\* r1: the body of the for loop up to the first await
R1_Event(S, t, pageID, e) ==
    IF ~IsUserMessage(e, pageID) THEN Loop(Advance(S, t), t) ELSE
    LET last == IF Has(S.userLastMessage, e.sender)
                THEN S.userLastMessage[e.sender] ELSE 0
        note(v) == [req |-> S.tasks[t].req, ei |-> S.tasks[t].ei,
                    vi |-> S.tasks[t].vi, sender |-> e.sender, at |-> now,
                    last |-> last, verdict |-> v]
    IN  IF RateLimited(now, last)
        THEN Loop(Advance([S EXCEPT !.seen = Append(@, note("dropped"))], t), t)
        ELSE Await([S EXCEPT !.seen = Append(@, note("accepted")),
                             !.userLastMessage = MapSet(@, e.sender, now)],
                   t, "typing_on", "-", "typing_on")

\* p1: handleUserMessage is started and not awaited; it runs to its first await
P1_Event(S, t, pageID, e) ==
    IF ~IsUserMessage(e, pageID) THEN Loop(Advance(S, t), t) ELSE
    LET S1 == [S EXCEPT !.tasks = Append(@,
                   NewTask(S.tasks[t].req, "message", S.tasks[t].ei, S.tasks[t].vi)),
                        !.calls = Append(@, << >>)]
        m == Len(S1.tasks)
    IN  Loop(Advance(Await(S1, m, "typing_on", "-", "typing_on"), t), t)

\* r2 callOpenRouterAPI: every stored turn of the user, in order
OpenRouterMessages(convs, userID) ==
    LET history == convs[userID].messages
    IN  [k \in DOMAIN history |-> [role |-> history[k].role, content |-> history[k].content]]

\* p0 callGeminiAPI: the stored turns but the last, then the user message
GeminiContents(convs, userID, userMessage) ==
    LET history == convs[userID].messages
    IN  [k \in 1..(Len(history) - 1) |->
            [role |-> IF history[k].role = "user" THEN "user" ELSE "model",
             content |-> history[k].content]]
        \o <<[role |-> "user", content |-> userMessage]>>

\* r2: one event of processWebhookEvents up to the first await
R2_Event(S, t, pageID, e) ==
    IF IsUserMessage(e, pageID) THEN
        LET key == <<now, e.sender, e.mid>> IN
        IF key \in S.processedMessages THEN SetPc(S, t, "done") ELSE
        LET S1 == Issue([S EXCEPT !.processedMessages = @ \cup {key}],
                        t, "typing_on", "-")
        IN  IF IsClearCommand(e.text) THEN
                Await([S1 EXCEPT !.conversations = ClearConversation(@, e.sender)],
                      t, "text", "confirm", "send_confirm")
            ELSE IF IsWeatherRequest(e.text) THEN
                Await(S1, t, "data", "-", "data")
            ELSE
                LET S2 == [S1 EXCEPT !.conversations =
                               AddMessage(@, e.sender, "user", e.text, now)]
                IN  Complete(S2, t, OpenRouterMessages(S2.conversations, e.sender))
    ELSE IF IsPostback(e) THEN
        Await(IF e.postback = "GET_STARTED"
              THEN [S EXCEPT !.conversations = ClearConversation(@, e.sender)]
              ELSE S,
              t, "text", "postback", "send_postback")
    ELSE Loop(Advance(S, t), t)

\* r3 callAI up to the request: getConversationHistory creates the array
R3_CallAI(S, t) ==
    Await([S EXCEPT !.conversationMemory = GetConversationHistory(@, SenderOf(S, t))],
          t, "completion", "-", "completion")

\* r3: one event up to the first await
R3_Event(S, t, pageID, e) ==
    IF IsUserMessage(e, pageID) THEN
        LET S1 == Issue(S, t, "typing_on", "-") IN
        IF IsRealtimeQuery(e.text)
        THEN Await(S1, t, "data", "-", "data")
        ELSE R3_CallAI(S1, t)
    ELSE IF IsPostback(e) THEN Await(S, t, "text", "postback", "send_postback")
    ELSE Loop(Advance(S, t), t)

\* p0 callGeminiAPI up to the request; getHistory creates the session when
\* it is missing
P0_CallGemini(S, t) ==
    LET u == SenderOf(S, t)
        S1 == [S EXCEPT !.conversations = GetConversation(@, u, now)]
    IN  Complete(S1, t, GeminiContents(S1.conversations, u, EventOf(S, t).text))

\* p0: one event up to the first await
P0_Event(S, t, pageID, e) ==
    IF IsUserMessage(e, pageID) THEN
        LET S1 == StartTyping(S, t) IN
        IF IsClearCommand(e.text) THEN
            Await([S1 EXCEPT !.conversations = ClearConversation(@, e.sender)],
                  t, "text", "confirm", "send_confirm")
        ELSE
            LET S2 == [S1 EXCEPT !.conversations =
                           AddMessage(@, e.sender, "user", e.text, now)]
            IN  IF FOOTBALL_API_KEY /\ IsFootballQuery(e.text)
                THEN Await(S2, t, "data", "-", "data")
                ELSE P0_CallGemini(S2, t)
    ELSE IF IsPostback(e) THEN
        LET S1 == StartTyping(S, t) IN
        Await(IF e.postback \in {"GET_STARTED", "CLEAR_CHAT"}
              THEN [S1 EXCEPT !.conversations = ClearConversation(@, e.sender)]
              ELSE S1,
              t, "text", "postback", "send_postback")
    ELSE Loop(Advance(S, t), t)

HandleEvent(S, t, pageID, e) ==
    CASE rev = "r1" -> R1_Event(S, t, pageID, e)
      [] rev = "r2" -> R2_Event(S, t, pageID, e)
      [] rev = "r3" -> R3_Event(S, t, pageID, e)
      [] rev = "p0" -> P0_Event(S, t, pageID, e)
      [] OTHER -> P1_Event(S, t, pageID, e)

\* for (const entry of body.entry) for (const event of entry.messaging),
\* from the task's position
Loop(S, t) ==
    LET task == S.tasks[t]
        body == BodyOf(S, t)
    IN  IF task.ei > Len(body.entry) THEN LoopDone(S, t)
        ELSE IF ~body.entry[task.ei].iterable THEN Throw(S, t)
        ELSE IF task.vi > Len(body.entry[task.ei].messaging)
        THEN Loop([S EXCEPT !.tasks[t].ei = @ + 1, !.tasks[t].vi = 1], t)
        ELSE HandleEvent(S, t, body.entry[task.ei].id,
                         body.entry[task.ei].messaging[task.vi])

\* the handler of app.post('/webhook') up to its first await
HandlerStart(S, t) ==
    LET r == S.tasks[t].req
        body == S.reqs[r].body
        loops(S1) == IF body.hasEntry THEN Loop(S1, t) ELSE Throw(S1, t)
    IN  CASE rev = "r1" ->
                IF body.object = "page"
                THEN loops(Respond(S, r, EventReceived))
                ELSE SetPc(Respond(S, r, SendStatus(404)), t, "done")
          [] rev = "r2" ->
                IF body.object = "page"
                THEN loops(Respond(S, r, EventReceived))
                ELSE SetPc(Respond(S, r, EventReceived), t, "done")
          [] OTHER ->
                IF body.object = "page" THEN loops(S) ELSE LoopDone(S, t)

(***************************************************************************)
(* What a handler does when the call it awaits returns                     *)
(***************************************************************************)
Resolve(S, t, result) == [S EXCEPT !.calls[t][S.tasks[t].call].result = result]

\* the catch of the per-message try: send the apology
Apology(S, t) == Await(S, t, "text", "apology", "send_apology")

\* r1 finally: await sendTypingIndicator(senderID, false); err is the
\* exception thrown by the catch block, if any
R1_Finally(S, t, err) ==
    Await([S EXCEPT !.tasks[t].err = err], t, "typing_off", "-", "typing_off")

\* r2, r3, p0 finally, then the next event
EndEvent(S, t) ==
    IF rev = "p0"
    THEN Loop(Advance(StopTyping(S, t), t), t)
    ELSE Loop(Advance(Issue(S, t, "typing_off", "-"), t), t)

\* an awaited sendTypingIndicator has returned (r1, p1); its failure is
\* swallowed inside sendTypingIndicator
AfterTyping(S, t) ==
    LET pc == S.tasks[t].pc
        e == EventOf(S, t)
    IN  CASE rev = "r1" /\ pc = "typing_on" ->
                Await([S EXCEPT !.conversationHistory =
                           R1_PushUser(@, e.sender, e.text)],
                      t, "completion", "-", "completion")
          [] rev = "r1" /\ pc = "typing_off" ->
                IF S.tasks[t].err THEN Throw(S, t) ELSE Loop(Advance(S, t), t)
          [] rev = "p1" /\ pc = "typing_on" ->
                Await(S, t, "completion", "-", "completion")
          [] rev = "p1" /\ pc \in {"typing_off_pre", "chunk_typing_off"} ->
                Await(S, t, "text", "reply", "send_chunk")
          [] rev = "p1" /\ pc = "chunk_typing_on" -> Sleep(S, t, ChunkDelayP1)
          [] rev = "p1" /\ pc = "typing_off_err" -> Apology(S, t)

\* an awaited data lookup has returned (r2 getWeather, r3
\* checkAndGetRealtimeData, p0 getFootballContext); none of them throws
AfterData(S, t) ==
    CASE rev = "r2" -> Await(S, t, "text", "weather", "send_weather")
      [] rev = "r3" -> R3_CallAI(S, t)
      [] rev = "p0" -> P0_CallGemini(S, t)

\* the completion request has returned: ok with a reply of n chunks, or not
AfterCompletion(S, t, ok, n) ==
    LET e == EventOf(S, t) IN
    CASE rev = "r1" ->
            IF ok
            THEN Await([S EXCEPT !.conversationHistory =
                            R1_PushAssistant(@, e.sender, Reply),
                                 !.tasks[t].n = n, !.tasks[t].i = 0],
                       t, "text", "reply", "send_chunk")
            ELSE Apology(S, t)
      [] rev = "p1" ->
            IF ok
            THEN Await([S EXCEPT !.tasks[t].n = n, !.tasks[t].i = 0],
                       t, "typing_off", "-", "typing_off_pre")
            ELSE Await(S, t, "typing_off", "-", "typing_off_err")
      [] rev \in {"r2", "p0"} ->
            IF ok
            THEN Await([S EXCEPT !.conversations =
                            AddMessage(@, e.sender, "assistant", Reply, now)],
                       t, "text", "reply", "send_reply")
            ELSE Apology(S, t)
      [] rev = "r3" ->
            IF ok
            THEN Await([S EXCEPT !.conversationMemory =
                            AddToHistory(
                                AddToHistory(@, e.sender, "user", e.text, now),
                                e.sender, "assistant", Reply, now)],
                       t, "text", "reply", "send_reply")
            ELSE Apology(S, t)

\* mutant of AfterSend: revision 1 goes on to the next chunk after a failed send
AfterSend_GoesOn(S, t, ok) ==
    LET pc == S.tasks[t].pc
        more == S.tasks[t].i + 1 < S.tasks[t].n
        next == [S EXCEPT !.tasks[t].i = @ + 1]
    IN  CASE rev = "r1" /\ pc = "send_chunk" ->
                IF more THEN Sleep(next, t, ChunkDelayR1)
                ELSE IF ~ok THEN Apology(S, t)
                ELSE R1_Finally(S, t, FALSE)
          [] rev = "r1" /\ pc = "send_apology" -> R1_Finally(S, t, ~ok)
          [] rev = "p1" /\ pc = "send_chunk" ->
                IF ~ok THEN Await(S, t, "typing_off", "-", "typing_off_err")
                ELSE IF more THEN Await(next, t, "typing_on", "-", "chunk_typing_on")
                ELSE SetPc(S, t, "done")
          [] rev = "p1" /\ pc = "send_apology" -> SetPc(S, t, "done")
          [] rev \in {"r2", "r3", "p0"} /\ pc \in {"send_reply", "send_confirm"} ->
                IF ok THEN EndEvent(S, t) ELSE Apology(S, t)
          [] rev = "r2" /\ pc = "send_weather" ->
                IF ok THEN EndEvent(Issue(S, t, "typing_off", "-"), t)
                ELSE Apology(S, t)
          [] rev \in {"r2", "r3", "p0"} /\ pc = "send_apology" -> EndEvent(S, t)
          [] rev \in {"r2", "r3"} /\ pc = "send_postback" -> Loop(Advance(S, t), t)
          [] rev = "p0" /\ pc = "send_postback" -> EndEvent(S, t)

\* sendFacebookMessage has returned: ok, or it threw
AfterSend(S, t, ok) ==
    LET pc == S.tasks[t].pc
        more == S.tasks[t].i + 1 < S.tasks[t].n
        next == [S EXCEPT !.tasks[t].i = @ + 1]
    IN  CASE rev = "r1" /\ pc = "send_chunk" ->
                IF ~ok THEN Apology(S, t)
                ELSE IF more THEN Sleep(next, t, ChunkDelayR1)
                ELSE R1_Finally(S, t, FALSE)
          [] rev = "r1" /\ pc = "send_apology" -> R1_Finally(S, t, ~ok)
          [] rev = "p1" /\ pc = "send_chunk" ->
                IF ~ok THEN Await(S, t, "typing_off", "-", "typing_off_err")
                ELSE IF more THEN Await(next, t, "typing_on", "-", "chunk_typing_on")
                ELSE SetPc(S, t, "done")
          [] rev = "p1" /\ pc = "send_apology" -> SetPc(S, t, "done")
          [] rev \in {"r2", "r3", "p0"} /\ pc \in {"send_reply", "send_confirm"} ->
                IF ok THEN EndEvent(S, t) ELSE Apology(S, t)
          [] rev = "r2" /\ pc = "send_weather" ->
                IF ok THEN EndEvent(Issue(S, t, "typing_off", "-"), t)
                ELSE Apology(S, t)
          [] rev \in {"r2", "r3", "p0"} /\ pc = "send_apology" -> EndEvent(S, t)
          [] rev \in {"r2", "r3"} /\ pc = "send_postback" -> Loop(Advance(S, t), t)
          [] rev = "p0" /\ pc = "send_postback" -> EndEvent(S, t)

\* mutant of AfterSleep: the chunk sent before the pause is sent again
AfterSleep_Resends(S, t) ==
    Await([S EXCEPT !.tasks[t].i = @ - 1], t, "text", "reply", "send_chunk")

\* the timer of sleep(ms) has fired
AfterSleep(S, t) ==
    IF rev = "r1"
    THEN Await(S, t, "text", "reply", "send_chunk")
    ELSE Await(S, t, "typing_off", "-", "chunk_typing_off")

(***************************************************************************)
(* Actions of Spec                                                         *)
(***************************************************************************)
TypingPcs == {"typing_on", "typing_off", "typing_off_pre", "chunk_typing_on",
              "chunk_typing_off", "typing_off_err"}
SendPcs == {"send_chunk", "send_reply", "send_confirm", "send_weather",
            "send_apology", "send_postback"}
AwaitPcs == TypingPcs \cup SendPcs \cup {"data", "completion"}

Outcome(ok) == IF ok THEN "ok" ELSE "fail"

hookFrame == UNCHANGED <<heapVars, rev, now, env, FOOTBALL_API_KEY, verifyVars, appended, op>>

\* a POST /webhook arrives: the handler runs to its first await
DeliverFrom(bodies, max) ==
    \E body \in bodies :
        /\ Len(reqs) < max
        /\ LET r == Len(reqs) + 1
               S1 == [Cur EXCEPT
                        !.reqs = Append(@, [body |-> body, res |-> NoResponse,
                                            late |-> FALSE]),
                        !.tasks = Append(@, NewTask(r, "handler", 1, 1)),
                        !.calls = Append(@, << >>)]
           IN  Commit(HandlerStart(S1, Len(S1.tasks)))
        /\ hookFrame

Deliver == DeliverFrom(Bodies, MaxDeliveries)

\* whether the indicator was sent or not leaves no trace in the program
\* (sendTypingIndicator swallows the error)
TypingReturns ==
    \E t \in DOMAIN tasks :
        /\ tasks[t].pc \in TypingPcs
        /\ Commit(AfterTyping(Resolve(Cur, t, "returned"), t))
        /\ hookFrame

DataReturns ==
    \E t \in DOMAIN tasks :
        /\ tasks[t].pc = "data"
        /\ Commit(AfterData(Resolve(Cur, t, "ok"), t))
        /\ hookFrame

CompletionReturns ==
    \E t \in DOMAIN tasks, ok \in BOOLEAN, n \in 1..MaxChunks :
        /\ tasks[t].pc = "completion"
        /\ (n > 1) => (ok /\ rev \in {"r1", "p1"})
        /\ Commit(AfterCompletion(Resolve(Cur, t, Outcome(ok)), t, ok, n))
        /\ hookFrame

SendReturns ==
    \E t \in DOMAIN tasks, ok \in BOOLEAN :
        /\ tasks[t].pc \in SendPcs
        /\ Commit(AfterSend(Resolve(Cur, t, Outcome(ok)), t, ok))
        /\ hookFrame

SleepReturns ==
    \E t \in DOMAIN tasks :
        /\ tasks[t].pc = "sleep"
        /\ now >= tasks[t].wake
        /\ Commit(AfterSleep(Cur, t))
        /\ hookFrame

Tick ==
    /\ now < StartTime + MaxTicks * TickMs
    /\ now' = now + TickMs
    /\ UNCHANGED <<heapVars, rev, env, FOOTBALL_API_KEY, verifyVars, storeVars, hookVars, appended, op>>

(***************************************************************************)
(* The typing indicator with its outcome: the request can succeed, be      *)
(* answered with a non-success status, or fail on the network              *)
(***************************************************************************)
TypingOutcomes == {"ok", "status", "network"}
TypingKinds == {"typing_on", "typing_off"}

\* mutant of SendTypingIndicator: a network failure is thrown on
SendTypingIndicator_Rethrows(outcome) ==
    IF outcome = "network" THEN "thrown" ELSE "returned"

\* sendTypingIndicator: the rejection of fetch is caught and dropped, the
\* response of fetch is never looked at
SendTypingIndicator(outcome) ==
    IF outcome = "network" THEN "returned" ELSE "returned"

\* a delivery of one event arrives
DeliverOne ==
    DeliverFrom({Body("page", TRUE, <<GoodEntry(evs)>>) : evs \in {l \in EventLists : Len(l) = 1}},
                MaxDeliveries)

\* an awaited sendTypingIndicator settles (r1, p1)
TypingSettles ==
    \E t \in DOMAIN tasks, outcome \in TypingOutcomes :
        /\ tasks[t].pc \in TypingPcs
        /\ IF SendTypingIndicator(outcome) = "returned"
           THEN Commit(AfterTyping(Resolve(Cur, t, outcome), t))
           ELSE Commit(Throw(Resolve(Cur, t, outcome), t))
        /\ hookFrame

\* a sendTypingIndicator nobody awaits settles (r2, r3, p0: called with
\* .catch(() => {}))
TypingSettlesUnawaited ==
    \E t \in DOMAIN calls, outcome \in TypingOutcomes :
        \E k \in DOMAIN calls[t] :
            /\ calls[t][k].kind \in TypingKinds
            /\ ~calls[t][k].awaited
            /\ calls[t][k].result = "pending"
            /\ calls' = [calls EXCEPT ![t][k].result = outcome]
            /\ UNCHANGED <<reqs, tasks, seen, storeVars>>
            /\ hookFrame

(***************************************************************************)
(* Two deliveries of one event each, all of the same sender, handled at    *)
(* the same time, with the periodic cleanup of revision 3                  *)
(***************************************************************************)
MaxPairDeliveries == 2             \* SpecPair: deliveries in one behaviour
MaxPairTicks == 1                  \* SpecPair: long clock steps in one behaviour
LongTickMs == 3600000              \* SpecPair: the long clock step

\* a message, a command, a data request or a button click of u1 arrives
DeliverPair ==
    DeliverFrom({Body("page", TRUE, <<GoodEntry(<<e>>)>>) :
                    e \in {Event("u1", Hello, FALSE, Absent),
                           Event("u1", ClearText, FALSE, Absent),
                           Event("u1", DataText, FALSE, Absent),
                           Event("u1", Absent, FALSE, "GET_STARTED")}},
                MaxPairDeliveries)

\* r3: the setInterval callback that drops the turns older than one hour
CleanConversationMemory(mem, t) ==
    LET filtered(u) == SelectSeq(mem[u], LAMBDA msg : msg.timestamp > t - CleanupAge)
    IN  [u \in {x \in DOMAIN mem : filtered(x) # << >>} |-> filtered(u)]

MemoryCleanup ==
    /\ rev = "r3"
    /\ conversationMemory' = CleanConversationMemory(conversationMemory, now)
    /\ conversationMemory' # conversationMemory
    /\ UNCHANGED <<reqs, tasks, calls, seen, conversations, conversationHistory,
                   userLastMessage, processedMessages, typingIntervals>>
    /\ hookFrame

\* r2: cleanupProcessedMessages drops the keys older than MESSAGE_EXPIRE_TIME
CleanupProcessedMessages(keys, t) ==
    {key \in keys : ~(t - key[1] > MESSAGE_EXPIRE_TIME)}

\* r2: the setInterval callback of the ConversationManager constructor
ProcessedCleanup ==
    /\ rev = "r2"
    /\ processedMessages' = CleanupProcessedMessages(processedMessages, now)
    /\ processedMessages' # processedMessages
    /\ UNCHANGED <<reqs, tasks, calls, seen, conversations, conversationHistory,
                   userLastMessage, conversationMemory, typingIntervals>>
    /\ hookFrame

\* the clock moves by a short step or by a long one
PairTick ==
    \E ms \in {TickMs, LongTickMs} :
        /\ ms = TickMs => ((now - StartTime) % LongTickMs) \div TickMs < MaxTicks
        /\ ms = LongTickMs => (now - StartTime) \div LongTickMs < MaxPairTicks
        /\ now' = now + ms
        /\ UNCHANGED <<heapVars, rev, env, FOOTBALL_API_KEY, verifyVars, storeVars,
                       hookVars, appended, op>>

(***************************************************************************)
(* The session store on its own: append, read, clear and sweep in any      *)
(* order (r2 and p0: ConversationManager; r3: the history functions)       *)
(***************************************************************************)
MaxStoreAppends == 3               \* SpecStore: appends in one behaviour
MaxStoreTicks == 3                 \* SpecStore: clock steps in one behaviour
StoreTickMs == 900000              \* SpecStore: milliseconds in one clock step

CONVERSATION_TIMEOUT == 1800000            \* 30 * 60 * 1000

\* mutant of CleanupOldConversations: a session is also deleted at the timeout
CleanupOldConversations_AtTimeout(convs, t) ==
    [u \in {x \in DOMAIN convs : t - convs[x].lastActivity < CONVERSATION_TIMEOUT}
        |-> convs[u]]

\* ConversationManager.cleanupOldConversations at Date.now() = t
CleanupOldConversations(convs, t) ==
    [u \in {x \in DOMAIN convs : ~(t - convs[x].lastActivity > CONVERSATION_TIMEOUT)}
        |-> convs[u]]

\* getStats().activeConversations
ActiveConversations(convs) == Cardinality(DOMAIN convs)

\* the registry a store call works on
Registry == IF rev = "r3" THEN conversationMemory ELSE conversations
\* the turns the registry holds for a user (none when it has no session)
TurnsIn(reg, u) ==
    IF ~Has(reg, u) THEN << >>
    ELSE IF rev = "r3" THEN reg[u] ELSE reg[u].messages

\* what is remembered of a store call
Observed(name, u, result) ==
    [name |-> name, user |-> u, at |-> now, before |-> Registry, result |-> result,
     prev |-> op.name,
     prevUser |-> IF op.name = "none" THEN Absent ELSE op.user,
     prevHad |-> IF op.name = "none" THEN 0 ELSE Len(TurnsIn(op.before, op.user))]

storeFrame ==
    UNCHANGED <<heapVars, rev, now, env, FOOTBALL_API_KEY, verifyVars, hookVars, appended,
                conversationHistory, userLastMessage, processedMessages,
                typingIntervals>>

\* addMessage (r2, p0) / addToHistory (r3)
StoreAppend ==
    \E u \in Users, role \in Roles :
        /\ Len(TurnsIn(Registry, "u1")) + Len(TurnsIn(Registry, "u2")) < MaxStoreAppends
        /\ IF rev = "r3"
           THEN /\ conversationMemory' = AddToHistory(conversationMemory, u, role, "hello", now)
                /\ UNCHANGED conversations
           ELSE /\ conversations' = AddMessage(conversations, u, role, "hello", now)
                /\ UNCHANGED conversationMemory
        /\ op' = Observed("append", u, << >>)
        /\ storeFrame

\* getHistory (r2, p0) / getConversationHistory (r3)
StoreRead ==
    \E u \in Users :
        /\ IF rev = "r3"
           THEN /\ conversationMemory' = GetConversationHistory(conversationMemory, u)
                /\ op' = Observed("read", u, GetConversationHistory(conversationMemory, u)[u])
                /\ UNCHANGED conversations
           ELSE /\ conversations' = GetConversation(conversations, u, now)
                /\ op' = Observed("read", u, GetHistory(conversations, u, now))
                /\ UNCHANGED conversationMemory
        /\ storeFrame

\* clearConversation (r2, p0)
StoreClear ==
    \E u \in Users :
        /\ rev \in {"r2", "p0"}
        /\ conversations' = ClearConversation(conversations, u)
        /\ op' = Observed("clear", u, << >>)
        /\ UNCHANGED conversationMemory
        /\ storeFrame

\* the interval of the constructor fires: cleanupOldConversations (r2, p0)
StoreSweep ==
    /\ rev \in {"r2", "p0"}
    /\ conversations' = CleanupOldConversations(conversations, now)
    /\ op' = Observed("sweep", Absent, << >>)
    /\ UNCHANGED conversationMemory
    /\ storeFrame

StoreTick ==
    /\ now < StartTime + MaxStoreTicks * StoreTickMs
    /\ now' = now + StoreTickMs
    /\ UNCHANGED <<heapVars, rev, env, FOOTBALL_API_KEY, verifyVars, storeVars, hookVars,
                   appended, op>>

(***************************************************************************)
(* index.js revision 1: getAIResponse and the hourly cleanup.  The arrays  *)
(* of conversationHistory are objects: getAIResponse keeps a reference to  *)
(* the user's array across its await.  conversationHistory is kept as the  *)
(* contents of the arrays the Map refers to.                               *)
(***************************************************************************)
MaxAccepts == 7                    \* SpecHistory: accepted messages
MaxInFlight == 2                   \* SpecHistory: handlers suspended at a time
MaxHistTicks == 7                  \* SpecHistory: clock steps in one behaviour
HistTickMs == 3600000              \* SpecHistory: milliseconds in one clock step


\* the Map as its users see it: userID -> contents of the array it refers to
HistoryView(h, refs) == [u \in DOMAIN refs |-> h[refs[u]]]

InFlight == {t \in DOMAIN tasks : tasks[t].pc # "done"}

\* how many times the cleanup has deleted the history of user u so far; a
\* turn carries, as its content, this number at the time it was pushed
Deleted(u) == IF op.name = "cleanup" THEN op.deleted[u] ELSE 0

\* an array nothing refers to any more is garbage: its contents are dropped
Referenced(refs, ts) ==
    {refs[u] : u \in DOMAIN refs} \cup {ts[t].history : t \in {x \in DOMAIN ts : ts[x].pc = "completion"}}
Collect(h, refs, ts) == [a \in DOMAIN h |-> IF a \in Referenced(refs, ts) THEN h[a] ELSE << >>]
\* the address of a new array: a collected one, or a fresh one
NewArray(h, refs, ts) ==
    CHOOSE a \in 1..(Len(h) + 1) :
        /\ a \notin Referenced(refs, ts)
        /\ \A b \in 1..(a - 1) : b \in Referenced(refs, ts)

histFrame ==
    UNCHANGED <<rev, env, FOOTBALL_API_KEY, verifyVars, reqs, calls, seen, appended,
                conversations, conversationMemory, processedMessages, typingIntervals>>

\* the handler accepts a message of user u (rate limit passed), records the
\* time and awaits the typing indicator
HistAccept ==
    \E u \in {"u1"} :
        /\ Len(tasks) < MaxAccepts
        /\ Cardinality(InFlight) < MaxInFlight
        /\ ~RateLimited(now, IF Has(userLastMessage, u) THEN userLastMessage[u] ELSE 0)
        /\ userLastMessage' = MapSet(userLastMessage, u, now)
        /\ tasks' = Append(tasks, [kind |-> "getAIResponse", user |-> u,
                                   history |-> 0, pc |-> "typing_on"])
        /\ UNCHANGED <<heapVars, conversationHistory, now, op>>
        /\ histFrame

\* getAIResponse up to the request: get or create the array, keep a
\* reference to it, push the user turn, splice down to MAX_HISTORY * 2
HistStart ==
    \E t \in DOMAIN tasks :
        /\ tasks[t].pc = "typing_on"
        /\ LET u == tasks[t].user
               ref == IF Has(histRef, u) THEN histRef[u] ELSE NewArray(heap, histRef, tasks)
               heap1 == IF ref \in DOMAIN heap THEN heap ELSE Append(heap, << >>)
               pushed == Append(heap1[ref], [role |-> "user", content |-> Deleted(u)])
               heap2 == [heap1 EXCEPT ![ref] =
                            IF Len(pushed) > MAX_HISTORY * 2
                            THEN SliceLast(pushed, MAX_HISTORY * 2)
                            ELSE pushed]
               refs2 == MapSet(histRef, u, ref)
               tasks2 == [tasks EXCEPT ![t].pc = "completion", ![t].history = ref]
           IN  /\ heap' = Collect(heap2, refs2, tasks2)
               /\ histRef' = refs2
               /\ conversationHistory' = HistoryView(heap2, refs2)
               /\ tasks' = tasks2
        /\ UNCHANGED <<userLastMessage, now, op>>
        /\ histFrame

\* the request returns: on a good answer the assistant turn is pushed onto
\* the array referred to and conversationHistory.set(userID, history)
HistReturns ==
    \E t \in DOMAIN tasks, ok \in BOOLEAN :
        /\ tasks[t].pc = "completion"
        /\ LET u == tasks[t].user
               ref == tasks[t].history
               heap2 == [heap EXCEPT ![ref] =
                            Append(@, [role |-> "assistant", content |-> Deleted(u)])]
               refs2 == MapSet(histRef, u, ref)
               tasks2 == [tasks EXCEPT ![t].pc = "done", ![t].history = 0]
           IN  /\ tasks' = tasks2
               /\ IF ok
                  THEN /\ heap' = Collect(heap2, refs2, tasks2)
                       /\ histRef' = refs2
                       /\ conversationHistory' = HistoryView(heap2, refs2)
                  ELSE /\ heap' = Collect(heap, histRef, tasks2)
                       /\ UNCHANGED <<histRef, conversationHistory>>
        /\ UNCHANGED <<userLastMessage, now, op>>
        /\ histFrame

\* the users the cleanup deletes at time t
Stale(t) == {u \in DOMAIN userLastMessage : userLastMessage[u] < t - CleanupAge}

\* the hourly interval fires: both Maps lose the users not heard of for an hour
HistCleanup ==
    /\ LET refs2 == [u \in DOMAIN histRef \ Stale(now) |-> histRef[u]]
           gone == [u \in Users |->
                      IF u \in Stale(now) /\ Has(histRef, u)
                      THEN Deleted(u) + 1 ELSE Deleted(u)]
       IN  /\ histRef' = refs2
           /\ heap' = Collect(heap, refs2, tasks)
           /\ conversationHistory' = HistoryView(heap, refs2)
           /\ userLastMessage' = [u \in DOMAIN userLastMessage \ Stale(now) |->
                                     userLastMessage[u]]
           /\ op' = [name |-> "cleanup", deleted |-> gone]
    /\ UNCHANGED <<tasks, now>>
    /\ histFrame

HistTick ==
    /\ now < StartTime + MaxHistTicks * HistTickMs
    /\ now' = now + HistTickMs
    /\ UNCHANGED <<heapVars, rev, env, FOOTBALL_API_KEY, verifyVars, storeVars,
                   hookVars, appended, op>>

(***************************************************************************)
(* Message splitting: splitMessage (index.js revision 1) and               *)
(* splitIntoChunks (part_001).  A string is a sequence of characters; each *)
(* character carries the index it has in the input text (0 for a character *)
(* the function adds), so that a chunk can be traced back to the input.    *)
(***************************************************************************)
MaxTextLen == 5                    \* SpecSplit: longest input text
MaxLength == 4                     \* SpecSplit: largest max length asked for

\* the replies: texts of letters, full stops, blanks and line feeds
Replies == UNION {[1..n -> {"a", "b", ".", " ", "\n"}] : n \in 0..MaxTextLen}
Tagged(text) == [i \in DOMAIN text |-> [ch |-> text[i], at |-> i]]
Literal(text) == [i \in DOMAIN text |-> [ch |-> text[i], at |-> 0]]
Untagged(str) == [i \in DOMAIN str |-> str[i].ch]

WhiteSpace == {" ", "\n"}
\* String.prototype.trim
Trim(str) ==
    LET solid == {i \in DOMAIN str : str[i].ch \notin WhiteSpace}
    IN  IF solid = {} THEN << >>
        ELSE SubSeq(str, CHOOSE i \in solid : \A j \in solid : i <= j,
                         CHOOSE i \in solid : \A j \in solid : i >= j)

\* String.prototype.split with a string separator
RECURSIVE SplitOn(_, _)
SplitOn(str, sep) ==
    LET hits == {i \in 1..(Len(str) - Len(sep) + 1) :
                    \A k \in DOMAIN sep : str[i + k - 1].ch = sep[k]}
    IN  IF hits = {} THEN <<str>>
        ELSE LET i == CHOOSE h \in hits : \A g \in hits : h <= g
             IN  <<SubSeq(str, 1, i - 1)>>
                    \o SplitOn(SubSeq(str, i + Len(sep), Len(str)), sep)

\* paragraph.split('. ')
Sentences_AtSpaces(paragraph) == SplitOn(paragraph, <<" ">>)
Sentences(paragraph) == SplitOn(paragraph, <<".", " ">>)

\* the for loop over sentences; st is [chunks, currentChunk]
RECURSIVE SplitMessageSentences(_, _, _, _)
SplitMessageSentences(sentences, i, st, maxLength) ==
    IF i > Len(sentences) THEN st
    ELSE LET sentence == sentences[i]
             st2 == IF Len(st.currentChunk \o sentence) > maxLength
                    THEN [chunks |-> IF st.currentChunk # << >>
                                     THEN Append(st.chunks, Trim(st.currentChunk))
                                     ELSE st.chunks,
                          currentChunk |-> sentence \o Literal(<<".", " ">>)]
                    ELSE [st EXCEPT !.currentChunk = @ \o sentence \o Literal(<<".", " ">>)]
         IN  SplitMessageSentences(sentences, i + 1, st2, maxLength)

\* the for loop over paragraphs
RECURSIVE SplitMessageParagraphs(_, _, _, _)
SplitMessageParagraphs(paragraphs, i, st, maxLength) ==
    IF i > Len(paragraphs) THEN st
    ELSE LET paragraph == paragraphs[i]
             flushed == IF st.currentChunk # << >>
                        THEN [chunks |-> Append(st.chunks, Trim(st.currentChunk)),
                              currentChunk |-> << >>]
                        ELSE st
             st2 == IF Len(st.currentChunk \o paragraph) > maxLength
                    THEN IF Len(paragraph) > maxLength
                         THEN SplitMessageSentences(Sentences(paragraph), 1, flushed, maxLength)
                         ELSE [flushed EXCEPT !.currentChunk = paragraph \o Literal(<<"\n", "\n">>)]
                    ELSE [st EXCEPT !.currentChunk = @ \o paragraph \o Literal(<<"\n", "\n">>)]
         IN  SplitMessageParagraphs(paragraphs, i + 1, st2, maxLength)

splitMessage(text, maxLength) ==
    IF Len(text) <= maxLength THEN <<text>>
    ELSE LET st == SplitMessageParagraphs(SplitOn(text, <<"\n", "\n">>), 1,
                        [chunks |-> << >>, currentChunk |-> << >>], maxLength)
         IN  IF st.currentChunk # << >>
             THEN Append(st.chunks, Trim(st.currentChunk))
             ELSE st.chunks

Terminators == {".", "!", "?"}
\* paragraph.match(/[^.!?]+[.!?]+/g): every maximal run of other characters
\* that a terminator follows, with the terminators that follow it
RECURSIVE MatchSentences(_)
MatchSentences(str) ==
    LET n == Len(str)
        starts == {i \in 1..n : str[i].ch \notin Terminators}
    IN  IF starts = {} THEN << >>
        ELSE LET i == CHOOSE x \in starts : \A y \in starts : x <= y
                 stops == {j \in i..n : str[j].ch \in Terminators}
             IN  IF stops = {} THEN << >>
                 ELSE LET j == CHOOSE x \in stops : \A y \in stops : x <= y
                          rest == {k \in j..n : str[k].ch \notin Terminators}
                          k == IF rest = {} THEN n + 1
                               ELSE CHOOSE x \in rest : \A y \in rest : x <= y
                      IN  <<SubSeq(str, i, k - 1)>> \o MatchSentences(SubSeq(str, k, n))

\* the for loop over sentences of splitIntoChunks
RECURSIVE SplitIntoChunksSentences(_, _, _, _)
SplitIntoChunksSentences(sentences, i, st, maxChars) ==
    IF i > Len(sentences) THEN st
    ELSE LET sentence == sentences[i]
             st2 == IF Len(st.currentChunk \o Literal(<<" ">>) \o sentence) > maxChars
                    THEN [chunks |-> IF Trim(st.currentChunk) # << >>
                                     THEN Append(st.chunks, Trim(st.currentChunk))
                                     ELSE st.chunks,
                          currentChunk |-> sentence]
                    ELSE [st EXCEPT !.currentChunk =
                            @ \o (IF @ # << >> THEN Literal(<<" ">>) ELSE << >>) \o sentence]
         IN  SplitIntoChunksSentences(sentences, i + 1, st2, maxChars)

\* the for loop over paragraphs of splitIntoChunks
RECURSIVE SplitIntoChunksParagraphs(_, _, _, _)
SplitIntoChunksParagraphs(paragraphs, i, st, maxChars) ==
    IF i > Len(paragraphs) THEN st
    ELSE LET paragraph == paragraphs[i]
             flushed == IF Trim(st.currentChunk) # << >>
                        THEN [chunks |-> Append(st.chunks, Trim(st.currentChunk)),
                              currentChunk |-> << >>]
                        ELSE st
             matched == MatchSentences(paragraph)
             st2 == IF Len(st.currentChunk \o Literal(<<"\n", "\n">>) \o paragraph) > maxChars
                    THEN IF Len(paragraph) > maxChars
                         THEN SplitIntoChunksSentences(
                                  IF matched # << >> THEN matched ELSE <<paragraph>>,
                                  1, flushed, maxChars)
                         ELSE [flushed EXCEPT !.currentChunk = paragraph]
                    ELSE [st EXCEPT !.currentChunk =
                            @ \o (IF @ # << >> THEN Literal(<<"\n", "\n">>) ELSE << >>)
                              \o paragraph]
         IN  SplitIntoChunksParagraphs(paragraphs, i + 1, st2, maxChars)

splitIntoChunks(text, maxChars) ==
    IF Len(text) <= maxChars THEN <<text>>
    ELSE LET st == SplitIntoChunksParagraphs(SplitOn(text, <<"\n", "\n">>), 1,
                        [chunks |-> << >>, currentChunk |-> << >>], maxChars)
             chunks == IF Trim(st.currentChunk) # << >>
                       THEN Append(st.chunks, Trim(st.currentChunk))
                       ELSE st.chunks
         IN  IF Len(chunks) > 0 THEN chunks ELSE <<text>>

\* the reply is split: splitMessage(aiReply, ...) in revision 1,
\* splitIntoChunks(aiReply, ...) in part_001
SplitReply ==
    /\ op.name = "reply"
    /\ op' = [name |-> "chunks", text |-> op.text, max |-> op.max,
              chunks |-> IF rev = "r1"
                         THEN splitMessage(Tagged(op.text), op.max)
                         ELSE splitIntoChunks(Tagged(op.text), op.max)]
    /\ UNCHANGED <<heapVars, rev, now, env, FOOTBALL_API_KEY, verifyVars, storeVars,
                   hookVars, appended>>

(***************************************************************************)
(* Initial states and specifications                                      *)
(***************************************************************************)
Envs == {Absent, "", "env_secret"}

InitModule ==
    /\ now = StartTime
    /\ vquery = [mode |-> Absent, token |-> Absent, challenge |-> Absent]
    /\ vres = NoResponse
    /\ conversations = EmptyMap
    /\ conversationMemory = EmptyMap
    /\ conversationHistory = EmptyMap
    /\ userLastMessage = EmptyMap
    /\ processedMessages = {}
    /\ typingIntervals = {}
    /\ reqs = << >>
    /\ tasks = << >>
    /\ calls = << >>
    /\ seen = << >>
    /\ appended = [u \in Users |-> << >>]
    /\ heap = << >>
    /\ histRef = EmptyMap

InitIdle == InitModule /\ op = NoOp

InitVerify == rev \in Revisions /\ env \in Envs /\ FOOTBALL_API_KEY = FALSE /\ InitIdle
NextVerify == GetWebhook
SpecVerify == InitVerify /\ [][NextVerify]_vars

InitCap ==
    rev \in {"r2", "r3", "p0"} /\ env = Absent /\ FOOTBALL_API_KEY = FALSE /\ InitIdle
NextCap == AppendCall
SpecCap == InitCap /\ [][NextCap]_vars

InitStore ==
    rev \in {"r2", "r3", "p0"} /\ env = Absent /\ FOOTBALL_API_KEY = FALSE /\ InitIdle
NextStore ==
    \/ StoreAppend
    \/ StoreRead
    \/ StoreClear
    \/ StoreSweep
    \/ StoreTick
SpecStore == InitStore /\ [][NextStore]_vars

InitSplit ==
    /\ rev \in {"r1", "p1"} /\ env = Absent /\ FOOTBALL_API_KEY = FALSE /\ InitModule
    /\ \E text \in Replies, max \in 2..MaxLength :
          op = [name |-> "reply", text |-> text, max |-> max]
NextSplit == SplitReply
SpecSplit == InitSplit /\ [][NextSplit]_vars

InitHistory == rev = "r1" /\ env = Absent /\ FOOTBALL_API_KEY = FALSE /\ InitIdle
NextHistory ==
    \/ HistAccept
    \/ HistStart
    \/ HistReturns
    \/ HistCleanup
    \/ HistTick
SpecHistory == InitHistory /\ [][NextHistory]_vars

Init ==
    /\ rev \in Revisions
    /\ env = Absent
    /\ FOOTBALL_API_KEY \in (IF rev = "p0" THEN BOOLEAN ELSE {FALSE})
    /\ InitIdle
Next ==
    \/ Deliver
    \/ TypingReturns
    \/ DataReturns
    \/ CompletionReturns
    \/ SendReturns
    \/ SleepReturns
    \/ Tick
Spec == Init /\ [][Next]_vars

InitPair == Init
NextPair ==
    \/ DeliverPair
    \/ TypingReturns
    \/ DataReturns
    \/ CompletionReturns
    \/ SendReturns
    \/ SleepReturns
    \/ MemoryCleanup
    \/ ProcessedCleanup
    \/ PairTick
SpecPair == InitPair /\ [][NextPair]_vars

InitTyping == Init
NextTyping ==
    \/ DeliverOne
    \/ TypingSettles
    \/ TypingSettlesUnawaited
    \/ DataReturns
    \/ CompletionReturns
    \/ SendReturns
    \/ SleepReturns
    \/ Tick
SpecTyping == InitTyping /\ [][NextTyping]_vars

(***************************************************************************)
(* Claims                                                                  *)
(***************************************************************************)

\* C1: after more than 10 appends for a user, the stored history of that
\* user is exactly the 10 most recently appended turns, in append order
\* (and before that, exactly the turns appended).
C1_HistoryIsLastTen ==
    \A u \in Users :
        StoredHistory(u) = SliceLast(appended[u], 10)

C1_Witness ==
    \E u \in Users :
        /\ Len(appended[u]) > 10
        /\ Len(StoredHistory(u)) = 10
        /\ StoredHistory(u)[1] # appended[u][1]

(***************************************************************************)
(* POST /webhook: vocabulary of the claims                                 *)
(***************************************************************************)
\* every outbound call made so far, as <<task, index>>
AllCalls == UNION {{<<t, k>> : k \in DOMAIN calls[t]} : t \in DOMAIN calls}
CallAt(c) == calls[c[1]][c[2]]
\* the calls made for the event at (ei, vi) of delivery r
CallsFor(r, ei, vi) ==
    {c \in AllCalls : /\ CallAt(c).req = r
                      /\ CallAt(c).ei = ei
                      /\ CallAt(c).vi = vi}
\* the task that runs the route handler of delivery r
HandlerOf(r) == CHOOSE t \in DOMAIN tasks : tasks[t].req = r /\ tasks[t].kind = "handler"
\* the task has returned, or has ended with an exception
Stopped(t) == tasks[t].pc \in {"done", "rejected"}
\* object is 'page' but entry is missing or an entry has no messaging list
Malformed(body) == body.object = "page" /\ ~WellFormed(body)
\* the event is an echo or was sent by the page itself
EchoOrSelf(r, ei, vi) ==
    LET entry == reqs[r].body.entry[ei]
    IN  entry.messaging[vi].is_echo \/ entry.messaging[vi].sender = entry.id
\* every event delivered so far is an echo or was sent by the page
OnlyEchoesDelivered ==
    \A r \in DOMAIN reqs : \A ei \in DOMAIN reqs[r].body.entry :
        \A vi \in DOMAIN reqs[r].body.entry[ei].messaging : EchoOrSelf(r, ei, vi)

\* C2 as stated: in every revision the acknowledgment is sent without
\* waiting for any outbound call, so whenever a handler is suspended on an
\* outbound call made for an event of a delivery, that delivery has already
\* been answered.
C2_AckDoesNotWait ==
    \A t \in DOMAIN tasks :
        tasks[t].pc \in AwaitPcs => Responded(reqs[tasks[t].req].res)

\* C2, the revisions that do acknowledge first (index.js revisions 1 and 2,
\* part_001): there the acknowledgment never waits for an outbound call.
C2_AckFirstRevisions == rev \in {"r1", "r2", "p1"} => C2_AckDoesNotWait

\* C3 as stated: for an event that is an echo or was sent by the page itself
\* (a postback included) no Graph API call and no completion call is made,
\* and the session and rate-limit registries stay as they were (empty, when
\* nothing else was delivered).
C3_EchoesCauseNothing ==
    /\ \A c \in AllCalls :
          CallAt(c).kind # "data" =>
              ~EchoOrSelf(CallAt(c).req, CallAt(c).ei, CallAt(c).vi)
    /\ OnlyEchoesDelivered =>
          /\ DOMAIN conversations = {}
          /\ DOMAIN conversationMemory = {}
          /\ DOMAIN conversationHistory = {}
          /\ DOMAIN userLastMessage = {}

\* C3, the revisions without a postback branch (index.js revision 1,
\* part_001): there echoes and the page's own events cause nothing.
C3_NoPostbackRevisions == rev \in {"r1", "p1"} => C3_EchoesCauseNothing

\* r1: the rate-limit decisions before decision i that accepted a message of
\* the same sender
AcceptedBefore(i) ==
    {j \in 1..(i - 1) : seen[j].sender = seen[i].sender /\ seen[j].verdict = "accepted"}
\* the time of that sender's last accepted message before decision i, 0 if none
LastAcceptedAt(i) ==
    IF AcceptedBefore(i) = {} THEN 0
    ELSE seen[CHOOSE j \in AcceptedBefore(i) : \A k \in AcceptedBefore(i) : k <= j].at
\* the decisions that accepted a message of user u
AcceptedOf(u) == {j \in DOMAIN seen : seen[j].sender = u /\ seen[j].verdict = "accepted"}
\* the completion requests made for user u, and those that were answered
CompletionsFor(u) == {c \in AllCalls : CallAt(c).kind = "completion" /\ CallAt(c).to = u}
AnsweredFor(u) == {c \in CompletionsFor(u) : CallAt(c).result = "ok"}

\* C4: in index.js revision 1 a text message that arrives less than
\* RATE_LIMIT_MS after the same user's last accepted message is dropped: no
\* typing indicator, completion request or message is sent for it,
\* userLastMessage keeps the time of the last accepted message, and
\* conversationHistory holds only the turns of accepted messages.
C4_RateLimitedIsDropped ==
    rev = "r1" =>
        /\ \A i \in DOMAIN seen :
              /\ seen[i].last = LastAcceptedAt(i)
              /\ seen[i].at - seen[i].last < RATE_LIMIT_MS => seen[i].verdict = "dropped"
              /\ seen[i].verdict = "dropped" =>
                    CallsFor(seen[i].req, seen[i].ei, seen[i].vi) = {}
        /\ \A u \in Users :
              /\ Has(userLastMessage, u) <=> AcceptedOf(u) # {}
              /\ Has(userLastMessage, u) =>
                    \E j \in AcceptedOf(u) :
                        /\ \A k \in AcceptedOf(u) : k <= j
                        /\ userLastMessage[u] = seen[j].at
              /\ Has(conversationHistory, u) <=> CompletionsFor(u) # {}
              /\ Has(conversationHistory, u) =>
                    Len(conversationHistory[u]) =
                        Cardinality(CompletionsFor(u)) + Cardinality(AnsweredFor(u))

\* a second message of a user was dropped one clock step after the first was
\* accepted and answered, and the delivery has been processed to its end
C4_Witness ==
    /\ rev = "r1"
    /\ \E i \in DOMAIN seen :
          /\ seen[i].verdict = "dropped"
          /\ seen[i].last = StartTime
          /\ seen[i].at = StartTime + TickMs
          /\ userLastMessage[seen[i].sender] = StartTime
          /\ Len(conversationHistory[seen[i].sender]) = 2
          /\ tasks[HandlerOf(seen[i].req)].pc = "done"

\* the text messages sent for the same event as call c
TextsOf(c) ==
    {d \in CallsFor(CallAt(c).req, CallAt(c).ei, CallAt(c).vi) : CallAt(d).kind = "text"}
\* the task that made call c has left the event of c behind
EventOver(c) ==
    \/ Stopped(c[1])
    \/ tasks[c[1]].ei # CallAt(c).ei
    \/ tasks[c[1]].vi # CallAt(c).vi

\* an exception has left the handling of the event of call c
Escaped(c) ==
    /\ tasks[c[1]].err
    /\ tasks[c[1]].ei = CallAt(c).ei
    /\ tasks[c[1]].vi = CallAt(c).vi

\* the apologies sent for the same event as call c
ApologiesOf(c) == {d \in TextsOf(c) : CallAt(d).what = "apology"}
\* the failed completion request c was answered with one apology to the same
\* user and no reply, and no exception left the handling of the message
ApologisedOnce(c) ==
    /\ Cardinality(ApologiesOf(c)) <= 1
    /\ EventOver(c) => Cardinality(ApologiesOf(c)) = 1
    /\ \A d \in ApologiesOf(c) : CallAt(d).to = CallAt(c).to
    /\ \A d \in TextsOf(c) : CallAt(d).what # "reply"
    /\ ~Escaped(c)

\* C5 as stated: when the completion provider answers an accepted message
\* with a non-success status, the apology is sent to that user exactly once,
\* no reply text is sent, and no exception propagates out of the handling of
\* that message.
C5_ProviderFailureApologisesOnce ==
    \A c \in AllCalls :
        (CallAt(c).kind = "completion" /\ CallAt(c).result = "fail") =>
            ApologisedOnce(c)

\* C5, apart from an apology that index.js revision 1 fails to deliver: the
\* provider's failure is answered with one apology and nothing propagates.
C5_UnlessApologyFailsInR1 ==
    \A c \in AllCalls :
        ( /\ CallAt(c).kind = "completion"
          /\ CallAt(c).result = "fail"
          /\ rev = "r1" => \A d \in ApologiesOf(c) : CallAt(d).result # "fail" ) =>
            ApologisedOnce(c)

\* r2: processWebhookEvents has returned at a message it takes for a duplicate
StoppedAtDuplicate(t) ==
    /\ rev = "r2"
    /\ tasks[t].pc = "done"
    /\ tasks[t].ei \in DOMAIN reqs[tasks[t].req].body.entry
    /\ tasks[t].vi \in DOMAIN reqs[tasks[t].req].body.entry[tasks[t].ei].messaging

\* C6 as stated: in every revision, when sending the apology fails too, the
\* failure is only logged: no exception leaves the handling of the message,
\* the remaining events of the delivery are still processed (the loops run to
\* their end), and nothing more is written to the acknowledged response.
C6_ApologyFailureOnlyLogged ==
    \A c \in AllCalls :
        ( /\ CallAt(c).kind = "text"
          /\ CallAt(c).what = "apology"
          /\ CallAt(c).result = "fail"
          /\ WellFormed(reqs[CallAt(c).req].body) ) =>
            LET t == c[1]
                r == CallAt(c).req
            IN  /\ ~Escaped(c)
                /\ ~reqs[r].late
                /\ tasks[t].pc # "rejected"
                /\ (tasks[t].kind = "handler" /\ Stopped(t)) =>
                      \/ tasks[t].ei > Len(reqs[r].body.entry)
                      \/ StoppedAtDuplicate(t)

\* C6, every revision but index.js revision 1: a failed apology is only
\* logged.
C6_OutsideRevision1 == rev # "r1" => C6_ApologyFailureOnlyLogged

\* C7 as stated: every well-formed delivery is answered 200
\* 'EVENT_RECEIVED', whatever body.object is and however processing ends.
C7_AsStated ==
    \A r \in DOMAIN reqs :
        WellFormed(reqs[r].body) =>
            /\ Stopped(HandlerOf(r)) => Responded(reqs[r].res)
            /\ Responded(reqs[r].res) => reqs[r].res = EventReceived

\* C7 amended: a well-formed delivery is answered 200 'EVENT_RECEIVED'
\* however processing ends, except that index.js revision 1 answers 404
\* 'Not Found' when body.object is not 'page'; the handler never returns
\* without having answered.
C7_AckUnlessNotPageInR1 ==
    \A r \in DOMAIN reqs :
        WellFormed(reqs[r].body) =>
            /\ Stopped(HandlerOf(r)) => Responded(reqs[r].res)
            /\ Responded(reqs[r].res) =>
                  reqs[r].res = IF rev = "r1" /\ reqs[r].body.object # "page"
                                THEN SendStatus(404)
                                ELSE [status |-> 200, body |-> "EVENT_RECEIVED"]

\* a revision that answers last has answered 200 after the provider failed
\* and the apology could not be delivered
C7_Witness ==
    /\ rev \in {"r3", "p0"}
    /\ \E c \in AllCalls :
          /\ CallAt(c).what = "apology"
          /\ CallAt(c).result = "fail"
          /\ \E d \in CallsFor(CallAt(c).req, CallAt(c).ei, CallAt(c).vi) :
                CallAt(d).kind = "completion" /\ CallAt(d).result = "fail"
          /\ Stopped(HandlerOf(CallAt(c).req))
          /\ reqs[CallAt(c).req].res = [status |-> 200, body |-> "EVENT_RECEIVED"]

\* C8 as stated: in every revision a malformed delivery is answered 500.
C8_AsStated ==
    \A r \in DOMAIN reqs :
        (Malformed(reqs[r].body) /\ Stopped(HandlerOf(r))) =>
            reqs[r].res.status = 500

\* C8 amended: a malformed delivery is answered 500 'ERROR' by the revisions
\* that answer after processing (index.js revision 3, part_000, part_001);
\* index.js revisions 1 and 2 have already answered 200 'EVENT_RECEIVED' and
\* that stays the answer.
C8_ErrorUnlessAckFirst ==
    \A r \in DOMAIN reqs :
        Malformed(reqs[r].body) =>
            /\ Stopped(HandlerOf(r)) => Responded(reqs[r].res)
            /\ Responded(reqs[r].res) =>
                  reqs[r].res = IF rev \in {"r1", "r2"}
                                THEN [status |-> 200, body |-> "EVENT_RECEIVED"]
                                ELSE [status |-> 500, body |-> "ERROR"]

\* an entry without a messaging list, after an entry whose message was
\* answered, has been answered 500
C8_Witness ==
    /\ rev \in {"r3", "p0"}
    /\ \E r \in DOMAIN reqs :
          /\ Malformed(reqs[r].body)
          /\ Len(reqs[r].body.entry) = 2
          /\ \E c \in CallsFor(r, 1, 1) : CallAt(c).what = "reply" /\ CallAt(c).result = "ok"
          /\ Stopped(HandlerOf(r))
          /\ reqs[r].res = [status |-> 500, body |-> "ERROR"]

(***************************************************************************)
(* Session store: clear, read and sweep                                    *)
(***************************************************************************)
\* two registries hold the same sessions
SameRegistry(a, b) ==
    /\ DOMAIN a = DOMAIN b
    /\ \A u \in DOMAIN a : a[u] = b[u]

\* C11: whatever the registry held, clearConversation(userID) immediately
\* followed by getHistory(userID) returns an empty sequence.
C11_ClearThenHistoryIsEmpty ==
    (op.name = "read" /\ op.prev = "clear" /\ op.prevUser = op.user) =>
        op.result = << >>

\* a user with stored turns was cleared and then read
C11_Witness ==
    /\ op.name = "read"
    /\ op.prev = "clear"
    /\ op.prevUser = op.user
    /\ op.prevHad > 0
    /\ op.result = << >>

\* C12 as stated: reading a user's history changes nothing for any user id,
\* known or unknown: no session is created, no lastActivity changes and the
\* number of sessions stays the same.
C12_ReadIsReadOnly ==
    op.name = "read" =>
        /\ SameRegistry(Registry, op.before)
        /\ ActiveConversations(Registry) = ActiveConversations(op.before)

\* C12, for a user that has a session: the read changes nothing.
C12_KnownUserReadOnly ==
    (op.name = "read" /\ Has(op.before, op.user)) =>
        /\ SameRegistry(Registry, op.before)
        /\ op.result = TurnsIn(op.before, op.user)

\* C13: cleanupOldConversations run at time now deletes every session with
\* now - lastActivity > CONVERSATION_TIMEOUT and leaves every other session,
\* with its turns and lastActivity, as it was.
C13_SweepDeletesExactlyTheIdle ==
    op.name = "sweep" =>
        /\ DOMAIN conversations \subseteq DOMAIN op.before
        /\ \A u \in DOMAIN op.before :
              IF op.at - op.before[u].lastActivity > CONVERSATION_TIMEOUT
              THEN ~Has(conversations, u)
              ELSE Has(conversations, u) /\ conversations[u] = op.before[u]

\* a sweep deleted one session and kept another that had been idle for
\* exactly the timeout, with its turns
C13_Witness ==
    /\ op.name = "sweep"
    /\ \E u \in DOMAIN op.before : ~Has(conversations, u)
    /\ \E u \in DOMAIN conversations :
          /\ op.at - conversations[u].lastActivity = CONVERSATION_TIMEOUT
          /\ Len(conversations[u].messages) > 0

\* The body that answers a challenge: the challenge itself (nothing when the
\* query has none).
Echoes(body, challenge) == body = (IF challenge = Absent THEN "" ELSE challenge)

\* C9 as stated: 200 with the challenge exactly when the token matches,
\* whatever hub.mode is; 403 otherwise.
C9_AsStated ==
    Responded(vres) =>
        IF vquery.token = VERIFY_TOKEN
        THEN vres.status = 200 /\ Echoes(vres.body, vquery.challenge)
        ELSE vres.status = 403

\* C9 amended: GET /webhook answers 200 with a body equal to hub.challenge
\* exactly when hub.mode is present and non-empty and hub.verify_token equals
\* VERIFY_TOKEN; in every other case it answers 403.
C9_VerifyNeedsModeAndToken ==
    Responded(vres) =>
        IF Truthy(vquery.mode) /\ vquery.token = VERIFY_TOKEN
        THEN vres.status = 200 /\ Echoes(vres.body, vquery.challenge)
        ELSE vres.status = 403

C9_Witness ==
    /\ Responded(vres)
    /\ vres.status = 200
    /\ vquery.challenge = "1158201444"
    /\ vres.body = "1158201444"

\* C10 as stated: a missing or wrong token is answered 403 with an empty body.
C10_AsStated ==
    (Responded(vres) /\ vquery.token # VERIFY_TOKEN) =>
        vres.status = 403 /\ vres.body = ""

\* C10 amended: a missing or wrong hub.verify_token is answered with status
\* 403 and the body 'Forbidden' (the status text res.sendStatus sends),
\* whatever hub.challenge is.
C10_RejectIsForbiddenText ==
    (Responded(vres) /\ vquery.token # VERIFY_TOKEN) =>
        vres.status = 403 /\ vres.body = "Forbidden"

C10_Witness ==
    /\ Responded(vres)
    /\ vquery.token = "wrong"
    /\ vquery.challenge = "1158201444"
    /\ vres.status = 403
\* C14: in revision 1 the conversationHistory array of a user never holds
\* more than MAX_HISTORY * 2 = 10 entries, whatever getAIResponse calls,
\* successful or failed, have run.
C14_HistoryAtMostTen ==
    \A u \in DOMAIN conversationHistory :
        Len(conversationHistory[u]) <= MAX_HISTORY * 2

\* what the code keeps: the splice runs after the user turn only, so the
\* assistant turn of every call that was in flight is an entry on top
C14_HistoryAtMostTenAndInFlight ==
    \A a \in DOMAIN heap : Len(heap[a]) <= MAX_HISTORY * 2 + MaxInFlight

\* C20: in revision 1, once the hourly cleanup has deleted a user's history
\* while a getAIResponse call for that user is in flight, the turns it
\* deleted are not in the user's history when the call completes.
C20_DeletedTurnsStayDeleted ==
    \A u \in DOMAIN conversationHistory :
        \A i \in DOMAIN conversationHistory[u] :
            conversationHistory[u][i].content = Deleted(u)

\* the case: a call was in flight when its user's history was deleted
C20_DeletedInFlight ==
    \E t \in DOMAIN tasks :
        /\ tasks[t].pc = "completion"
        /\ ~Has(histRef, tasks[t].user)
        /\ Deleted(tasks[t].user) > 0
        /\ heap[tasks[t].history] # << >>

\* the characters of a string that are not white space, in order
Solid(text) == SelectSeq(text, LAMBDA c : c \notin WhiteSpace)
\* the chunks, concatenated
RECURSIVE Joined(_)
Joined(chunks) == IF chunks = << >> THEN << >> ELSE Head(chunks) \o Joined(Tail(chunks))

\* C15: whatever the text and the max length, no chunk splitMessage
\* (revision 1) or splitIntoChunks (part_001) returns is longer than the max
\* length.
C15_NoChunkOverMax ==
    op.name = "chunks" =>
        \A i \in DOMAIN op.chunks : Len(op.chunks[i]) <= op.max

\* C16: whatever the text and the max length, the chunks concatenated are
\* the text up to white space: no other character is dropped, added or
\* moved.
C16_ChunksReproduceInput ==
    op.name = "chunks" =>
        Solid(Untagged(Joined(op.chunks))) = Solid(op.text)

\* the input's characters a chunk holds, by their index in the input
Origins(chunk) == {chunk[i].at : i \in DOMAIN chunk} \ {0}
\* index q of the text starts a paragraph or a sentence: before it, white
\* space apart, the text begins or a sentence ends, or a paragraph separator
\* stands between
AtBreak(text, q) ==
    LET before == {p \in 1..(q - 1) : text[p] \notin WhiteSpace}
        p == IF before = {} THEN 0 ELSE CHOOSE x \in before : \A y \in before : x >= y
    IN  \/ p = 0
        \/ text[p] \in Terminators
        \/ \E j \in (p + 1)..(q - 2) : text[j] = "\n" /\ text[j + 1] = "\n"
\* the first character of the input in a chunk
FirstOrigin(chunk) == CHOOSE x \in Origins(chunk) : \A y \in Origins(chunk) : x <= y

\* C17: for a text longer than the max length, every chunk of splitMessage
\* or splitIntoChunks begins where a paragraph or a sentence of the text
\* begins: no sentence is split over two chunks.
C17_ChunksBeginAtBreaks ==
    (op.name = "chunks" /\ Len(op.text) > op.max) =>
        \A i \in DOMAIN op.chunks :
            Origins(op.chunks[i]) # {} => AtBreak(op.text, FirstOrigin(op.chunks[i]))

\* a paragraph longer than the max length cut between two of its sentences
C17_Witness ==
    /\ op.name = "chunks"
    /\ Len(op.text) > op.max
    /\ \A j \in 1..(Len(op.text) - 1) : ~(op.text[j] = "\n" /\ op.text[j + 1] = "\n")
    /\ Len(op.chunks) >= 2
    /\ \A i \in DOMAIN op.chunks : Origins(op.chunks[i]) # {}
    /\ Solid(Untagged(Joined(op.chunks))) = Solid(op.text)

\* the user messages of delivery r that come after the event at (ei, vi) and
\* are from another sender
LaterMessages(r, ei, vi) ==
    LET entry == reqs[r].body.entry
    IN  {w \in {<<a, b>> : a \in DOMAIN entry, b \in 1..MaxEvents} :
            /\ w[2] \in DOMAIN entry[w[1]].messaging
            /\ w[1] > ei \/ (w[1] = ei /\ w[2] > vi)
            /\ IsUserMessage(entry[w[1]].messaging[w[2]], entry[w[1]].id)
            /\ entry[w[1]].messaging[w[2]].sender # entry[ei].messaging[vi].sender}

\* C19: the handling of one event does not block the handling of another:
\* while the handling of an event waits for its completion call, the user
\* messages of other senders later in the same delivery are already being
\* handled.
C19_EventsDoNotBlock ==
    \A t \in DOMAIN tasks :
        tasks[t].pc = "completion" =>
            \A w \in LaterMessages(tasks[t].req, tasks[t].ei, tasks[t].vi) :
                CallsFor(tasks[t].req, w[1], w[2]) # {}

\* C19 where it holds: part_001 starts handleUserMessage for every event
\* without awaiting it
C19_Part001DoesNotBlock == rev = "p1" => C19_EventsDoNotBlock

\* a completion call is awaited with another sender's message later in the
\* same delivery
C19_TwoSenders ==
    \E t \in DOMAIN tasks :
        /\ tasks[t].pc = "completion"
        /\ LaterMessages(tasks[t].req, tasks[t].ei, tasks[t].vi) # {}

\* the program's state without the outcomes of the typing-indicator calls
ButTyping(S) ==
    [S EXCEPT !.calls = [t \in DOMAIN S.calls |->
        [k \in DOMAIN S.calls[t] |->
            IF S.calls[t][k].kind \in TypingKinds
            THEN [S.calls[t][k] EXCEPT !.result = "-"]
            ELSE S.calls[t][k]]]]
\* the typing-indicator call at <<t, k>> fails in this step
TypingFails(t, k) ==
    /\ calls[t][k].kind \in TypingKinds
    /\ calls[t][k].result = "pending"
    /\ calls'[t][k].result \in {"status", "network"}

\* C18: a typing-indicator call that fails (network error or non-success
\* status) changes nothing a text message depends on: the step in which it
\* fails leaves the program, the texts sent included, in the state the same
\* call leaves it in when it succeeds.
C18_TypingFailureChangesNothing ==
    [][\A t \in DOMAIN calls : \A k \in DOMAIN calls[t] :
          TypingFails(t, k) =>
              IF calls[t][k].awaited
              THEN ButTyping(Cur') = ButTyping(AfterTyping(Resolve(Cur, t, "ok"), t))
              ELSE ButTyping(Cur') = ButTyping(Cur)]_vars

\* a reply was sent after the typing indicator of its event had failed
C18_Witness ==
    \E c \in AllCalls : \E d \in TextsOf(c) :
        /\ CallAt(c).kind = "typing_on"
        /\ CallAt(c).result \in {"status", "network"}
        /\ CallAt(d).what # "apology"
        /\ CallAt(d).result = "ok"

\* revision 1: two messages of user u have been seen, the first accepted,
\* the second dropped by the rate limit, and nothing is being handled
AcceptedThenDropped(u) ==
    /\ rev = "r1"
    /\ Len(seen) = 2
    /\ seen[1].sender = u /\ seen[1].verdict = "accepted"
    /\ seen[2].sender = u /\ seen[2].verdict = "dropped"
    /\ \A t \in DOMAIN tasks : Stopped(t)
\* the length of the stored history of u in revision 1
HistoryLength(u) ==
    IF Has(conversationHistory, u) THEN Len(conversationHistory[u]) ELSE 0

SameRequest(c, d) ==
    /\ CallAt(c).req = CallAt(d).req
    /\ CallAt(c).ei = CallAt(d).ei
    /\ CallAt(c).vi = CallAt(d).vi
    /\ CallAt(c).kind = CallAt(d).kind
    /\ CallAt(c).what = CallAt(d).what
    /\ CallAt(c).i = CallAt(d).i

\* C22: nothing is retried: for one inbound message at most one completion
\* request is issued, and each chunk of the reply and the apology are sent
\* at most once, whatever call fails.
C22_NothingIsRetried ==
    \A c \in AllCalls : \A d \in AllCalls :
        (CallAt(c).kind \in {"completion", "text"} /\ SameRequest(c, d)) => c = d

\* the second chunk of a reply could not be sent and the apology was sent
C22_Witness ==
    \E c \in AllCalls : \E d \in ApologiesOf(c) :
        /\ CallAt(c).kind = "text" /\ CallAt(c).what = "reply"
        /\ CallAt(c).i = 1
        /\ CallAt(c).result = "fail"
        /\ CallAt(d).result # "pending"

\* the completion requests of revision 2 and part_000
HistoryRequests ==
    {c \in AllCalls : CallAt(c).kind = "completion" /\ rev \in {"r2", "p0"}}
\* the roles of consecutive turns differ
Alternates(turns) ==
    \A k \in 1..(Len(turns) - 1) : turns[k].role # turns[k + 1].role
\* the text of the message call c was made for
MessageOf(c) == EventAt(reqs[CallAt(c).req].body, CallAt(c).ei, CallAt(c).vi).text

\* C23: in every completion request of callOpenRouterAPI (revision 2) and
\* callGeminiAPI (part_000) the turns after the system instruction alternate
\* strictly between user and assistant, and the last turn is the new user
\* message, also after messages whose completion failed.
C23_RequestTurnsAlternate ==
    \A c \in HistoryRequests :
        LET turns == CallAt(c).turns
        IN  /\ Alternates(turns)
            /\ turns # << >>
            /\ turns[Len(turns)] = [role |-> "user", content |-> MessageOf(c)]

\* C23, the part that holds when messages are handled one after the other:
\* the last turn of the request is the new user message
C23_LastTurnIsTheMessage ==
    \A c \in HistoryRequests :
        /\ CallAt(c).turns # << >>
        /\ CallAt(c).turns[Len(CallAt(c).turns)] = [role |-> "user", content |-> MessageOf(c)]

\* the messages with text x that user u has sent so far, by position
Received(u, x) ==
    {w \in {<<r, a, b>> : r \in DOMAIN reqs, a \in 1..2, b \in 1..MaxEvents} :
        /\ w[2] \in DOMAIN reqs[w[1]].body.entry
        /\ w[3] \in DOMAIN reqs[w[1]].body.entry[w[2]].messaging
        /\ LET e == reqs[w[1]].body.entry[w[2]].messaging[w[3]]
           IN  IsUserMessage(e, reqs[w[1]].body.entry[w[2]].id)
                  /\ e.sender = u /\ e.text = x}
\* how often the request of call c holds the text of its message as a user turn
TimesInRequest(c) ==
    Cardinality({k \in DOMAIN CallAt(c).turns :
                    CallAt(c).turns[k] = [role |-> "user", content |-> MessageOf(c)]})

\* C24: in part_000 the stored turn callGeminiAPI leaves out of the request
\* is the turn of the current user message, so the request holds the current
\* message exactly once: a text is in the request, as a user turn, no more
\* often than the user has sent it.  Also when two messages of one user
\* are handled at the same time.
C24_MessageOnceInRequest ==
    \A c \in AllCalls :
        (rev = "p0" /\ CallAt(c).kind = "completion") =>
            TimesInRequest(c) <= Cardinality(Received(CallAt(c).to, MessageOf(c)))

\* calls c and d were made for two deliveries of one message: the same
\* sender, the same mid and the same text
SameMessage(c, d) ==
    LET e == EventAt(reqs[CallAt(c).req].body, CallAt(c).ei, CallAt(c).vi)
        f == EventAt(reqs[CallAt(d).req].body, CallAt(d).ei, CallAt(d).vi)
    IN  e.sender = f.sender /\ e.mid = f.mid /\ e.text = f.text
\* the completion requests and the first chunks of the replies
Processings ==
    {c \in AllCalls : \/ CallAt(c).kind = "completion"
                      \/ /\ CallAt(c).kind = "text"
                         /\ CallAt(c).what = "reply"
                         /\ CallAt(c).i = 0}

\* C25: in revision 2 a message delivered twice with the same sender id and
\* mid within MESSAGE_EXPIRE_TIME is processed at most once: while no more
\* than MESSAGE_EXPIRE_TIME has passed since the start, there is at most one
\* completion request and at most one reply for it.
C25_DuplicateProcessedOnce ==
    (rev = "r2" /\ now - StartTime <= MESSAGE_EXPIRE_TIME) =>
        \A c, d \in Processings :
            (SameMessage(c, d) /\ CallAt(c).kind = CallAt(d).kind) => c = d
\* C25 for two deliveries within the same millisecond: the second one is
\* recognised, so the calls for one message belong to one delivery.
C25_SameMillisecondProcessedOnce ==
    (rev = "r2" /\ now = StartTime) =>
        \A c, d \in Processings :
            (SameMessage(c, d) /\ CallAt(c).kind = CallAt(d).kind) => c = d

\* the sends of the chunks of a reply in revision 1 and part_001
ChunkSends ==
    {c \in AllCalls : /\ rev \in {"r1", "p1"}
                      /\ CallAt(c).kind = "text"
                      /\ CallAt(c).what = "reply"}
\* calls c and d were made for the same event
SameEvent(c, d) ==
    /\ CallAt(c).req = CallAt(d).req
    /\ CallAt(c).ei = CallAt(d).ei
    /\ CallAt(c).vi = CallAt(d).vi

\* C26: the chunks of one reply are sent in increasing index order; the send
\* of chunk i+1 starts only after the send of chunk i has succeeded; after a
\* failed chunk send no later chunk is sent.
C26_ChunksInOrder ==
    \A c \in ChunkSends :
        /\ CallAt(c).i > 0 =>
              \E d \in ChunkSends :
                  /\ SameEvent(c, d) /\ d[1] = c[1] /\ d[2] < c[2]
                  /\ CallAt(d).i = CallAt(c).i - 1
                  /\ CallAt(d).result = "ok"
        /\ \A d \in ChunkSends :
              (SameEvent(c, d) /\ d[1] = c[1] /\ c[2] < d[2]) =>
                  /\ CallAt(c).i < CallAt(d).i
                  /\ CallAt(c).result = "ok"
\* both chunks of a reply were sent, one after the other
C26_Witness ==
    \E c, d \in ChunkSends :
        /\ SameEvent(c, d)
        /\ CallAt(c).i = 0 /\ CallAt(d).i = 1
        /\ CallAt(c).result = "ok" /\ CallAt(d).result = "ok"

\* the handling of a clear command has begun: the typing_on calls made for
\* messages with the text '/Clear' (in revision 2 a delivery that is
\* recognised as a duplicate ends before that call)
ClearCommands ==
    {c \in AllCalls : /\ rev \in {"r2", "p0"}
                      /\ CallAt(c).kind = "typing_on"
                      /\ MessageOf(c) = ClearText
                      /\ IsUserMessage(EventAt(reqs[CallAt(c).req].body,
                                               CallAt(c).ei, CallAt(c).vi), PAGE_ID)}
\* the calls of the given kind and purpose made for the event of call c
CallsLike(c, kind, what) ==
    {d \in AllCalls : /\ SameEvent(c, d)
                      /\ CallAt(d).kind = kind
                      /\ CallAt(d).what = what}

\* a clear command: exactly one confirmation, no completion request, no
\* reply, and no stored turn that holds the command
ClearCommandCalls ==
    /\ \A c \in ClearCommands :
          /\ Cardinality(CallsLike(c, "text", "confirm")) = 1
          /\ CallsLike(c, "completion", "-") = {}
          /\ CallsLike(c, "text", "reply") = {}
    /\ rev \in {"r2", "p0"} =>
          \A u \in DOMAIN conversations :
              \A k \in DOMAIN conversations[u].messages :
                  conversations[u].messages[k].content # ClearText
\* a step in which a handler issues the confirmation of a clear command
\* leaves the sender without a session
ClearCommandDeletes ==
    \A t \in DOMAIN tasks' :
        ( /\ rev \in {"r2", "p0"}
          /\ tasks'[t].pc = "send_confirm"
          /\ \/ t \notin DOMAIN tasks
             \/ tasks[t].pc # "send_confirm"
             \/ tasks[t].call # tasks'[t].call )
        => ~Has(conversations',
                EventAt(reqs'[tasks'[t].req].body, tasks'[t].ei, tasks'[t].vi).sender)

\* C27: a message whose text equals '/clear' or '/reset' ignoring case
\* deletes the sender's session (the sender has no session when the
\* confirmation is issued), sends exactly one confirmation message, issues
\* no completion request and appends no turn to any session.
C27_ClearCommand == []ClearCommandCalls /\ [][ClearCommandDeletes]_vars
\* a clear command of a user with a stored turn was handled to its end
C27_Witness ==
    \E c \in ClearCommands : \E d \in CallsLike(c, "text", "confirm") :
        /\ CallAt(d).result = "ok"
        /\ \E x \in AllCalls : /\ CallAt(x).kind = "completion"
                               /\ CallAt(x).to = CallAt(c).to
                               /\ x[2] < c[2]
        /\ Stopped(c[1])

\* a message or postback of recipient u is being handled: a handler waits
\* at an await inside the handling of an event of u
BeingHandled(u) ==
    \E t \in DOMAIN tasks :
        /\ tasks[t].pc \in AwaitPcs
        /\ EventAt(reqs[tasks[t].req].body, tasks[t].ei, tasks[t].vi).sender = u

EventOfCall(c) == EventAt(reqs[CallAt(c).req].body, CallAt(c).ei, CallAt(c).vi)
\* the clears that have been processed: the confirmation of '/clear' or
\* '/reset', or the answer to a clearing button, has been issued
ProcessedClears ==
    {c \in AllCalls :
        /\ rev \in {"r2", "p0"}
        /\ CallAt(c).kind = "text"
        /\ \/ CallAt(c).what = "confirm"
           \/ /\ CallAt(c).what = "postback"
              /\ EventOfCall(c).postback \in
                    (IF rev = "p0" THEN {"GET_STARTED", "CLEAR_CHAT"}
                                   ELSE {"GET_STARTED"})}
\* position w = <<delivery, entry, event>> comes before the event of call c
BeforeCall(w, c) ==
    \/ w[1] < CallAt(c).req
    \/ w[1] = CallAt(c).req /\ w[2] < CallAt(c).ei
    \/ w[1] = CallAt(c).req /\ w[2] = CallAt(c).ei /\ w[3] < CallAt(c).vi
\* every message of u so far was received before the clear of call c
AllBeforeClear(u, c) ==
    \A x \in Texts : \A w \in Received(u, x) : BeforeCall(w, c)
\* the stored turns of u in revision 2 and part_000
StoredTurns(u) == IF Has(conversations, u) THEN conversations[u].messages ELSE << >>

\* C29: once a clear of a user's session has been processed, the user's
\* history never holds a turn that derives from a message received before
\* the clear: while every message of the user was received before the
\* clear, the user has no stored turn.
C29_NoTurnFromBeforeClear ==
    \A c \in ProcessedClears :
        AllBeforeClear(CallAt(c).to, c) => StoredTurns(CallAt(c).to) = << >>

\* the completion requests made for u that returned a reply
Answered(u) ==
    {c \in AllCalls : /\ CallAt(c).kind = "completion"
                      /\ CallAt(c).to = u
                      /\ CallAt(c).result = "ok"}

\* C30: in revision 3 turns are recorded only as a user/assistant pair after
\* a successful completion, a failed completion leaves the stored turns as
\* they were (no more than two stored turns per answered request), and every
\* non-empty stored history alternates strictly between the roles and ends
\* with an assistant turn, also when messages of one user are handled at
\* the same time and after any run of the cleanup.
C30_StoredPairs ==
    rev = "r3" =>
        \A u \in DOMAIN conversationMemory :
            LET h == conversationMemory[u]
            IN  /\ Len(h) <= 2 * Cardinality(Answered(u))
                /\ h # << >> => /\ Alternates(h)
                                /\ h[Len(h)].role = "assistant"
\* two messages of one user were answered and the cleanup has dropped the
\* pair of the first one
C30_Witness ==
    /\ rev = "r3"
    /\ Cardinality(Answered("u1")) = 2
    /\ Has(conversationMemory, "u1")
    /\ Len(conversationMemory["u1"]) = 2
    /\ conversationMemory["u1"][1].timestamp > StartTime
\* a failed completion beside an answered one of the same user
C30_FailureWitness ==
    /\ rev = "r3"
    /\ Cardinality(Answered("u1")) = 1
    /\ \E c \in AllCalls : /\ CallAt(c).kind = "completion"
                           /\ CallAt(c).to = "u1"
                           /\ CallAt(c).result = "fail"
    /\ Has(conversationMemory, "u1")
    /\ Len(conversationMemory["u1"]) = 2

====
